---- MODULE Spec2Model ----
(***************************************************************************)
(* Authentication and authorization core of the Media Processor API.       *)
(*                                                                         *)
(* The model covers the login handlers (cloud: part_000 and app-cloud.js,  *)
(* local: part_001), the MFA challenge handler, the token issuer           *)
(* (CognitoService.generateJWT, and jwt.sign in the local app), the two    *)
(* verification paths (the authenticateToken middleware built on           *)
(* jwt.verify, and CognitoService.verifyToken built on jwt.decode), the    *)
(* two group guards (authorizeGroup of the cloud app, requireGroup of      *)
(* cognitoGroups.js with its in-process table), the directory-backed       *)
(* group operations and the MFA enrolment routes, registration             *)
(* (CognitoService.registerUser), the role update                          *)
(* (CognitoService.updateUserRole), the login methods of MFAService,       *)
(* concurrent callers of the in-process group table, and the               *)
(* video-processing jobs with their timer callbacks and job routes.        *)
(*                                                                         *)
(* The user directory (Cognito) is reached only through                    *)
(* cognitoClient.send(command); it is modelled by the response shapes the  *)
(* code branches on: an AuthenticationResult, a ChallengeName with a       *)
(* Session, or a thrown exception with a name.                             *)
(***************************************************************************)
EXTENDS Integers, Sequences, FiniteSets, TLC

(***************************************************************************)
(* Bounds of the model.                                                    *)
(***************************************************************************)
\* first wall-clock instant (seconds) the model observes
StartTime == 1
\* the clock is sampled on the days StartTime + d*TokenTTL, d <= MaxDays
MaxDays == 1
\* number of challenge sessions the directory hands out
MaxSessions == 1
\* number of distinct software-token secrets (1..MaxSecrets; 0 is no secret)
MaxSecrets == 1
\* number of callers of the in-process table's functions at the same time
MaxCallers == 2
\* number of video-processing jobs started
MaxJobs == 2
\* number of timer callbacks of one job that wait for the record update at
\* the same time
MaxPending == 2

(***************************************************************************)
(* State variables.                                                        *)
(***************************************************************************)
VARIABLES
  clock,        \* Math.floor(Date.now() / 1000)
  dirGroups,    \* the directory's group membership of each principal
  dirSessions,  \* the directory's challenge sessions
  userGroupMembership,  \* cognitoGroups.js: username -> list of group names
  dirMfa,       \* the directory's software-token MFA state of each principal
  last,         \* the last request handled, the directory exchange it made
                \* and the response it sent; last.token is also the token the
                \* client holds and presents on its next request
  calls,        \* calls of the in-process table's functions under way
  jobs,         \* the video-processing jobs started: timer and closure
  completedJobs,  \* the Map completedJobs: job id -> job info
  dirAccounts   \* the accounts the directory has created on registration

vars ==
  <<clock, dirGroups, dirSessions, userGroupMembership, dirMfa, last,
    calls, jobs, completedJobs, dirAccounts>>

\* the state of the table's callers, of the jobs and of registration
workVars == <<calls, jobs, completedJobs, dirAccounts>>

(***************************************************************************)
(* Program constants.                                                      *)
(***************************************************************************)
\* exp = iat + 24*60*60 (generateJWT), expiresIn: '24h' (local login)
TokenTTL == 24 * 60 * 60
\* process.env.JWT_SECRET || 'your-secret-key'
JWT_SECRET == "your-secret-key"

\* JavaScript undefined, for string-valued fields
Undefined == "<undefined>"
\* optional non-string values: <<>> is undefined, <<v>> is the value v
None == <<>>
Some(v) == <<v>>

\* !x for a string-valued input
Falsy(s) == s = "" \/ s = Undefined

\* x || d for a string-valued x
OrElse(s, d) == IF Falsy(s) THEN d ELSE s

(***************************************************************************)
(* Principals known to the directory, and the inputs clients may send.     *)
(***************************************************************************)
Users == {"admin", "user"}
Groups == {"Admin", "User"}

\* req.body of POST /api/auth/login: <<username, password>>; "" is a field
\* that is missing or empty
LoginBodies ==
  {<<"admin", "admin123">>, <<"admin", "wrong">>, <<"user", "user123">>,
   <<"ghost", "wrong">>, <<"", "admin123">>, <<"admin", "">>}

\* default accounts: admin/admin123 and user/user123
DirPassword(u) == IF u = "admin" THEN "admin123" ELSE "user123"

\* users.role of the local database
DbRole(u) == IF u = "admin" THEN "admin" ELSE "user"

\* users.id of the local database (AUTOINCREMENT)
DbId(u) == IF u = "admin" THEN "1" ELSE "2"

ChallengeKinds == {"SOFTWARE_TOKEN_MFA", "NEW_PASSWORD_REQUIRED"}
\* the one-time code the directory currently accepts
DirCode == "123456"

\* the instants at which the clock is read: the start of a day and one second
\* into it
Instants == {StartTime + d * TokenTTL + l : d \in 0..MaxDays, l \in {0, 1}}

SessionIds == 1..MaxSessions

\* req.body of POST /api/auth/mfa-challenge: <<username, session, code>>.  A
\* session is one the directory handed out, a made-up one (0) or missing (-1)
MfaBodies ==
  {<<u, s, c>> : u \in Users, s \in SessionIds \cup {0},
                 c \in {"123456", "000000", "12ab"}}
    \cup {<<"", 1, "123456">>, <<"admin", -1, "123456">>, <<"admin", 1, "">>}

\* the shape of the code of a challenge response: missing or empty, six
\* digits, or anything else
CodeFormat(code) ==
  IF Falsy(code) THEN "missing"
  ELSE IF code \in {"123456", "000000"} THEN "six digits"
  ELSE "other"

(***************************************************************************)
(* Tokens.  A token is the payload that was signed together with the key   *)
(* it was signed with; wellFormed = FALSE is a string that is no JWT.      *)
(* The payload's 'cognito:groups' claim is the field groups.               *)
(***************************************************************************)
NullToken ==
  [wellFormed |-> FALSE, userId |-> Undefined, username |-> Undefined,
   email |-> Undefined, role |-> Undefined, groups |-> None,
   iat |-> None, exp |-> None, sig |-> ""]

\* jwt.sign(payload, secret): the payload is kept as given, signed with secret
JwtSign(payload, secret) ==
  [wellFormed |-> TRUE, userId |-> payload.userId, username |-> payload.username,
   email |-> payload.email, role |-> payload.role, groups |-> payload.groups,
   iat |-> payload.iat, exp |-> payload.exp, sig |-> secret]

\* jwt.verify(token, secret, callback): err is "" when the payload is handed
\* to the callback as its second argument
JwtVerify(token, secret, now) ==
  IF ~token.wellFormed THEN [err |-> "jwt malformed", payload |-> NullToken]
  ELSE IF token.sig # secret THEN [err |-> "invalid signature", payload |-> NullToken]
  ELSE IF token.exp # None /\ now >= token.exp[1]
    THEN [err |-> "jwt expired", payload |-> NullToken]
  ELSE [err |-> "", payload |-> token]

\* jwt.decode(token): the payload, unverified; isNull for a string that is no JWT
JwtDecode(token) ==
  IF token.wellFormed THEN [isNull |-> FALSE, payload |-> token]
  ELSE [isNull |-> TRUE, payload |-> NullToken]

\* generateJWT signing with a key other than the one authenticateToken verifies with
generateJWT_OtherKey(userData, now) ==
  JwtSign([userId |-> userData.userId, username |-> userData.username,
           email |-> userData.email,
           role |-> IF userData.role = Undefined THEN "user" ELSE userData.role,
           groups |-> None,
           iat |-> Some(now), exp |-> Some(now + TokenTTL)],
          "other-key")

\* CognitoService.generateJWT(userData): only userId, username, email and role
\* are taken from userData
generateJWT(userData, now) ==
  JwtSign([userId |-> userData.userId, username |-> userData.username,
           email |-> userData.email,
           role |-> IF userData.role = Undefined THEN "user" ELSE userData.role,
           groups |-> None,
           iat |-> Some(now), exp |-> Some(now + TokenTTL)],
          JWT_SECRET)

\* jwt.sign({userId, username, role}, JWT_SECRET, {expiresIn: '24h'}) of the
\* local login
LocalSign(u, now) ==
  JwtSign([userId |-> DbId(u), username |-> u, email |-> Undefined,
           role |-> DbRole(u), groups |-> None,
           iat |-> Some(now), exp |-> Some(now + TokenTTL)],
          JWT_SECRET)

\* decoded.exp && decoded.exp < now
ExpCheck(payload, now) ==
  payload.exp # None /\ payload.exp[1] # 0 /\ payload.exp[1] < now

\* CognitoService.verifyToken(token)
verifyToken(token, now) ==
  LET d == JwtDecode(token) IN
  IF d.isNull
    THEN [success |-> FALSE, error |-> "Invalid token format",
          username |-> Undefined, groups |-> {}]
  ELSE IF ExpCheck(d.payload, now)
    THEN [success |-> FALSE, error |-> "Token has expired",
          username |-> Undefined, groups |-> {}]
  ELSE [success |-> TRUE, error |-> "",
        username |-> d.payload.username,
        groups |-> IF d.payload.groups = None THEN {} ELSE d.payload.groups[1]]

\* authenticateToken without its test of user.username
authenticateToken_NoUsernameTest(hasHeader, token, now) ==
  IF ~hasHeader
    THEN [status |-> 401, error |-> "Access token required", next |-> FALSE,
          user |-> NullToken]
  ELSE LET v == JwtVerify(token, JWT_SECRET, now) IN
    IF v.err # ""
      THEN [status |-> 403, error |-> "Invalid token", next |-> FALSE,
            user |-> NullToken]
    ELSE [status |-> 200, error |-> "", next |-> TRUE, user |-> v.payload]

\* authenticateToken refusing a token whose subject holds no group in the
\* in-process table any more
authenticateToken_ChecksMembership(hasHeader, token, now) ==
  IF /\ token.username \in DOMAIN userGroupMembership
     /\ userGroupMembership[token.username] = <<>>
    THEN [status |-> 403, error |-> "Invalid token", next |-> FALSE,
          user |-> NullToken]
  ELSE authenticateToken_NoUsernameTest(hasHeader, token, now)

\* authenticateToken(req, res, next): hasHeader is whether the request
\* carries "Authorization: Bearer <token>"; next is whether next() is called
\* and user is what is then attached as req.user
authenticateToken(hasHeader, token, now) ==
  IF ~hasHeader
    THEN [status |-> 401, error |-> "Access token required", next |-> FALSE,
          user |-> NullToken]
  ELSE LET v == JwtVerify(token, JWT_SECRET, now) IN
    IF v.err # ""
      THEN [status |-> 403, error |-> "Invalid token", next |-> FALSE,
            user |-> NullToken]
    ELSE IF Falsy(v.payload.username)
      THEN [status |-> 401, error |-> "Username missing in token", next |-> FALSE,
            user |-> NullToken]
    ELSE [status |-> 200, error |-> "", next |-> TRUE, user |-> v.payload]

\* req.user['cognito:groups'] || []
ClaimedGroups(user) == IF user.groups = None THEN {} ELSE user.groups[1]

\* authorizeGroup(requiredGroup)(req, res, next)
authorizeGroup(requiredGroup, user) ==
  IF requiredGroup \notin ClaimedGroups(user)
    THEN [status |-> 403, error |-> "Access denied: insufficient group privileges",
          next |-> FALSE]
  ELSE [status |-> 200, error |-> "", next |-> TRUE]

(***************************************************************************)
(* services/cognitoGroups.js: the in-process group table and its guard.    *)
(* A list of group names is a sequence; a username the Map has no entry    *)
(* for reads as the empty list (userGroupMembership.get(username) || []).  *)
(***************************************************************************)
\* userGroupMembership.set('admin', ['Admin']); .set('user', ['User'])
DefaultMembership ==
  [u \in Users |-> IF u = "admin" THEN <<"Admin">> ELSE <<"User">>]

\* list.includes(x)
Includes(list, x) == \E i \in 1..Len(list) : list[i] = x

\* getUserGroups(username)
getUserGroups(membership, username) ==
  IF username \in DOMAIN membership THEN membership[username] ELSE <<>>

\* isUserInGroup(username, groupName)
isUserInGroup(membership, username, groupName) ==
  Includes(getUserGroups(membership, username), groupName)

\* addUserToGroup(username, groupName): the table afterwards
addUserToGroup(membership, username, groupName) ==
  LET userGroups == getUserGroups(membership, username) IN
  IF ~Includes(userGroups, groupName)
    THEN [membership EXCEPT ![username] = Append(userGroups, groupName)]
  ELSE membership

\* removeUserFromGroup(username, groupName): the table afterwards
removeUserFromGroup(membership, username, groupName) ==
  LET userGroups == getUserGroups(membership, username) IN
  [membership EXCEPT
     ![username] = SelectSeq(userGroups, LAMBDA group : group # groupName)]

\* the argument of requireGroup: a group name, or an array of group names
GuardName(g) == [isArray |-> FALSE, name |-> g, list |-> <<>>]
GuardList(l) == [isArray |-> TRUE, name |-> Undefined, list |-> l]

\* Array.isArray(allowedGroups) ? allowedGroups : [allowedGroups]
GroupsArray(allowedGroups) ==
  IF allowedGroups.isArray THEN allowedGroups.list ELSE <<allowedGroups.name>>

\* requireGroup(allowedGroups)(req, res, next), with req.user = user (NullToken
\* when req.user is not set).  userGroups is the field of that name in the
\* response body; groups is what is attached as req.user.groups
requireGroup(allowedGroups, user, membership) ==
  LET groupsArray == GroupsArray(allowedGroups)
      username == user.username
      userGroups == getUserGroups(membership, username)
      hasRequiredGroup ==
        \E i \in 1..Len(groupsArray) : Includes(userGroups, groupsArray[i])
  IN
  IF Falsy(username)
    THEN [status |-> 401, error |-> "Authentication required", next |-> FALSE,
          userGroups |-> None, groups |-> None]
  ELSE IF ~hasRequiredGroup
    THEN [status |-> 403, error |-> "Insufficient permissions", next |-> FALSE,
          userGroups |-> Some(userGroups), groups |-> None]
  ELSE [status |-> 200, error |-> "", next |-> TRUE,
        userGroups |-> None, groups |-> Some(userGroups)]

(***************************************************************************)
(* State.                                                                  *)
(***************************************************************************)
FreeSession == [user |-> Undefined, kind |-> Undefined, state |-> "free"]

\* a principal with no software token: MFA not enabled, no secret associated
\* (secret 0)
NoMfa == [enabled |-> FALSE, secret |-> 0]

\* no call of the table's functions is under way, no job has been started
\* and no account has been registered
InitWork ==
  /\ calls = <<>>
  /\ jobs = <<>>
  /\ completedJobs = <<>>
  /\ dirAccounts = <<>>

\* the request, directory exchange and response fields of a handler run
NoLast ==
  [op |-> "none", at |-> 0, username |-> Undefined,
   session |-> -1, replay |-> FALSE, hasHeader |-> FALSE,
   dirCalled |-> FALSE, dirKind |-> Undefined, dirName |-> Undefined,
   dirSession |-> -1,
   status |-> 0, kind |-> "none", token |-> NullToken,
   challenge |-> Undefined, rsession |-> -1, error |-> Undefined,
   next |-> FALSE, user |-> NullToken, success |-> FALSE, groups |-> {},
   required |-> <<>>, userGroups |-> None, group |-> Undefined,
   mfaBefore |-> FALSE, commands |-> <<>>, enabled |-> None, secret |-> 0,
   qrCode |-> None, codeFormat |-> Undefined, message |-> Undefined,
   authResult |-> FALSE, jobId |-> 0, returned |-> {}]

(***************************************************************************)
(* services/aws-config.js: the command constructors CognitoService can     *)
(* use.  new CognitoCommands.X(...) for an X that is not exported is       *)
(* new undefined(...) and throws a TypeError before anything is sent.      *)
(***************************************************************************)
\* the export list with the constructors of the group commands added
CognitoCommands_WithGroupCommands ==
  {"AdminCreateUserCommand", "AdminConfirmSignUpCommand",
   "AdminInitiateAuthCommand", "AdminGetUserCommand",
   "AdminUpdateUserAttributesCommand", "AdminDeleteUserCommand",
   "AdminRespondToAuthChallengeCommand", "AssociateSoftwareTokenCommand",
   "VerifySoftwareTokenCommand", "SetUserMFAPreferenceCommand",
   "AdminSetUserMFAPreferenceCommand", "AdminListGroupsForUserCommand",
   "AdminAddUserToGroupCommand", "AdminRemoveUserFromGroupCommand"}

CognitoCommands ==
  {"AdminCreateUserCommand", "AdminConfirmSignUpCommand",
   "AdminInitiateAuthCommand", "AdminGetUserCommand",
   "AdminUpdateUserAttributesCommand", "AdminDeleteUserCommand",
   "AdminRespondToAuthChallengeCommand", "AssociateSoftwareTokenCommand",
   "VerifySoftwareTokenCommand", "SetUserMFAPreferenceCommand",
   "AdminSetUserMFAPreferenceCommand"}

\* the exception of new CognitoCommands.X(...) when X is not exported
NotAConstructor == [kind |-> "Throw", name |-> "TypeError", session |-> -1]

\* cognitoClient.send(new CognitoCommands[command](...)): answer is what the
\* directory answers when the command reaches it
Send(command, answer) ==
  IF command \in CognitoCommands THEN answer ELSE NotAConstructor

\* whether new CognitoCommands[command](...) and the send went through, so
\* that the directory has carried the command out
Sent(command, d) == command \in CognitoCommands /\ d.kind # "Throw"

(***************************************************************************)
(* The directory: cognitoClient.send(command).                             *)
(***************************************************************************)
\* lowest session the directory has not handed out yet; 0 when none is left
NextSession(sessions) ==
  IF \E i \in SessionIds : sessions[i].state = "free"
    THEN CHOOSE i \in SessionIds :
           /\ sessions[i].state = "free"
           /\ \A j \in SessionIds : sessions[j].state = "free" => i <= j
  ELSE 0

\* AdminInitiateAuthCommand {USERNAME: u, PASSWORD: p}.  fault: the provider
\* is unavailable; second: what the directory asks for after the password
\* ("NONE", or a challenge kind)
DirInitiateAuth(sessions, u, p, fault, second) ==
  IF fault THEN [kind |-> "Throw", name |-> "InternalErrorException", session |-> -1]
  ELSE IF u \notin Users
    THEN [kind |-> "Throw", name |-> "UserNotFoundException", session |-> -1]
  ELSE IF p # DirPassword(u)
    THEN [kind |-> "Throw", name |-> "NotAuthorizedException", session |-> -1]
  ELSE IF second = "NONE"
    THEN [kind |-> "AuthenticationResult", name |-> Undefined, session |-> -1]
  ELSE [kind |-> "Challenge", name |-> second, session |-> NextSession(sessions)]

\* the directory's sessions after AdminInitiateAuthCommand answered d
SessionsAfterInitiate(sessions, u, d) ==
  IF d.kind = "Challenge"
    THEN [sessions EXCEPT ![d.session] = [user |-> u, kind |-> d.name, state |-> "open"]]
  ELSE sessions

\* whether session s is an open software-token challenge of u
SessionOpenFor(sessions, u, s) ==
  /\ s \in SessionIds
  /\ sessions[s].state = "open"
  /\ sessions[s].user = u
  /\ sessions[s].kind = "SOFTWARE_TOKEN_MFA"

\* AdminRespondToAuthChallengeCommand {ChallengeName: 'SOFTWARE_TOKEN_MFA',
\* Session: s, USERNAME: u, SOFTWARE_TOKEN_MFA_CODE: code}
DirRespondToAuthChallenge(sessions, u, s, code, fault) ==
  IF fault THEN [kind |-> "Throw", name |-> "InternalErrorException", session |-> -1]
  ELSE IF ~SessionOpenFor(sessions, u, s)
    THEN [kind |-> "Throw", name |-> "NotAuthorizedException", session |-> -1]
  ELSE IF code # DirCode
    THEN [kind |-> "Throw", name |-> "CodeMismatchException", session |-> -1]
  ELSE [kind |-> "AuthenticationResult", name |-> Undefined, session |-> -1]

\* the directory's sessions after AdminRespondToAuthChallengeCommand answered
\* d: an accepted session is used up; a code mismatch uses the session up when
\* the provider's retry limit is reached (burn)
SessionsAfterRespond(sessions, s, d, burn) ==
  IF d.kind = "AuthenticationResult"
    THEN [sessions EXCEPT ![s].state = "consumed"]
  ELSE IF d.name = "CodeMismatchException" /\ burn
    THEN [sessions EXCEPT ![s].state = "failed"]
  ELSE sessions

\* AdminAddUserToGroupCommand / AdminRemoveUserFromGroupCommand {Username: u,
\* GroupName: g}: whether the directory carries the command out
DirGroupCommand(u, g, fault) ==
  IF fault THEN [kind |-> "Throw", name |-> "InternalErrorException", session |-> -1]
  ELSE IF u \notin Users
    THEN [kind |-> "Throw", name |-> "UserNotFoundException", session |-> -1]
  ELSE IF g \notin Groups
    THEN [kind |-> "Throw", name |-> "ResourceNotFoundException", session |-> -1]
  ELSE [kind |-> "Ok", name |-> Undefined, session |-> -1]

\* the directory's memberships after AdminAddUserToGroupCommand answered d
GroupsAfterAdd(groups, u, g, d) ==
  IF d.kind = "Ok" THEN [groups EXCEPT ![u] = @ \cup {g}] ELSE groups

\* the directory's memberships after AdminRemoveUserFromGroupCommand answered d
GroupsAfterRemove(groups, u, g, d) ==
  IF d.kind = "Ok" THEN [groups EXCEPT ![u] = @ \ {g}] ELSE groups

\* AdminListGroupsForUserCommand {Username: u}: Groups is the set of groups
\* the directory holds for u
DirListGroupsForUser(groups, u, fault) ==
  IF fault
    THEN [kind |-> "Throw", name |-> "InternalErrorException", session |-> -1,
          Groups |-> {}]
  ELSE IF u \notin Users
    THEN [kind |-> "Throw", name |-> "UserNotFoundException", session |-> -1,
          Groups |-> {}]
  ELSE [kind |-> "Ok", name |-> Undefined, session |-> -1, Groups |-> groups[u]]

\* AdminDisableUserCommand, AdminEnableUserCommand and
\* AdminUpdateUserAttributesCommand {Username: u}
DirUserCommand(u, fault) ==
  IF fault THEN [kind |-> "Throw", name |-> "InternalErrorException", session |-> -1]
  ELSE IF u \notin Users
    THEN [kind |-> "Throw", name |-> "UserNotFoundException", session |-> -1]
  ELSE [kind |-> "Ok", name |-> Undefined, session |-> -1]

\* AdminCreateUserCommand {Username: u, TemporaryPassword: p}: accounts are
\* the accounts created so far
DirCreateUser(accounts, u, fault) ==
  IF fault THEN [kind |-> "Throw", name |-> "InternalErrorException", session |-> -1]
  ELSE IF u \in Users \/ u \in DOMAIN accounts
    THEN [kind |-> "Throw", name |-> "UsernameExistsException", session |-> -1]
  ELSE [kind |-> "Ok", name |-> Undefined, session |-> -1]

\* the directory's accounts after AdminCreateUserCommand answered d: the new
\* account is in no group and its password is a temporary one
AccountsAfterCreate(accounts, u, p, d) ==
  IF d.kind = "Ok"
    THEN [x \in DOMAIN accounts \cup {u} |->
            IF x = u THEN [groups |-> {}, password |-> p, permanent |-> FALSE]
            ELSE accounts[x]]
  ELSE accounts

\* the directory's accounts after AdminSetUserPasswordCommand {Username: u,
\* Password: p, Permanent: true} answered d
AccountsAfterPassword(accounts, u, p, d) ==
  IF d.kind = "Ok" /\ u \in DOMAIN accounts
    THEN [accounts EXCEPT ![u].password = p, ![u].permanent = TRUE]
  ELSE accounts

\* AdminInitiateAuthCommand {USERNAME: u, PASSWORD: p} for an account created
\* on registration: an account whose password is still the temporary one is
\* asked for a new password
DirInitiateAuthRegistered(accounts, sessions, u, p, fault) ==
  IF fault THEN [kind |-> "Throw", name |-> "InternalErrorException", session |-> -1]
  ELSE IF u \notin DOMAIN accounts
    THEN [kind |-> "Throw", name |-> "UserNotFoundException", session |-> -1]
  ELSE IF p # accounts[u].password
    THEN [kind |-> "Throw", name |-> "NotAuthorizedException", session |-> -1]
  ELSE IF ~accounts[u].permanent
    THEN [kind |-> "Challenge", name |-> "NEW_PASSWORD_REQUIRED",
          session |-> NextSession(sessions)]
  ELSE [kind |-> "AuthenticationResult", name |-> Undefined, session |-> -1]

\* AdminGetUserCommand {Username: u}: enabled is whether UserMFASettingList
\* includes 'SOFTWARE_TOKEN_MFA'
DirGetUser(mfa, u, fault) ==
  IF fault
    THEN [kind |-> "Throw", name |-> "InternalErrorException", session |-> -1,
          enabled |-> FALSE]
  ELSE IF u \notin Users
    THEN [kind |-> "Throw", name |-> "UserNotFoundException", session |-> -1,
          enabled |-> FALSE]
  ELSE [kind |-> "Ok", name |-> Undefined, session |-> -1,
        enabled |-> mfa[u].enabled]

\* a secret other than the one associated with the principal
FreshSecret(current) == IF current + 1 > MaxSecrets THEN 1 ELSE current + 1

\* the command that associates a software token with u: SecretCode is the
\* new secret
DirAssociateSoftwareToken(mfa, u, fault) ==
  IF fault
    THEN [kind |-> "Throw", name |-> "InternalErrorException", session |-> -1,
          SecretCode |-> 0]
  ELSE [kind |-> "Ok", name |-> Undefined, session |-> -1,
        SecretCode |-> FreshSecret(mfa[u].secret)]

\* the directory's MFA state after the association answered d
MfaAfterAssociate(mfa, u, d) ==
  IF d.kind = "Ok" THEN [mfa EXCEPT ![u].secret = d.SecretCode] ELSE mfa

\* VerifySoftwareTokenCommand {UserCode: code, SecretKey: secret} and the
\* command that verifies code for username: the code is checked against the
\* secret
DirVerifySoftwareToken(code, fault) ==
  IF fault THEN [kind |-> "Throw", name |-> "InternalErrorException", session |-> -1]
  ELSE IF code # DirCode
    THEN [kind |-> "Throw", name |-> "CodeMismatchException", session |-> -1]
  ELSE [kind |-> "Ok", name |-> Undefined, session |-> -1]

\* AdminSetUserMFAPreferenceCommand {Username: u, SoftwareTokenMfaSettings:
\* {Enabled: ...}}
DirSetUserMFAPreference(u, fault) ==
  IF fault THEN [kind |-> "Throw", name |-> "InternalErrorException", session |-> -1]
  ELSE IF u \notin Users
    THEN [kind |-> "Throw", name |-> "UserNotFoundException", session |-> -1]
  ELSE [kind |-> "Ok", name |-> Undefined, session |-> -1]

\* the directory's MFA state after AdminSetUserMFAPreferenceCommand with
\* Enabled: enabled answered d; a disabled token's secret is discarded
MfaAfterPreference(mfa, u, enabled, d) ==
  IF d.kind # "Ok" THEN mfa
  ELSE IF enabled THEN [mfa EXCEPT ![u].enabled = TRUE]
  ELSE [mfa EXCEPT ![u] = NoMfa]

(***************************************************************************)
(* CognitoService: the methods the handlers call.                          *)
(***************************************************************************)
\* authenticateUser reporting a pending challenge as a completed login
authenticateUser_ChallengeAsSuccess(d, username) ==
  [threw |-> d.kind = "Throw", message |-> "Authentication failed",
   success |-> d.kind # "Throw", username |-> username, email |-> Undefined,
   groups |-> None, challenge |-> Undefined, session |-> -1,
   challengeName |-> Undefined, Session |-> -1, error |-> Undefined]

\* authenticateUser rethrowing every exception of the directory with the
\* message of a refused password
authenticateUser_OneMessage(d, username) ==
  LET base == [threw |-> FALSE, message |-> Undefined, success |-> FALSE,
               username |-> Undefined, email |-> Undefined, groups |-> None,
               challenge |-> Undefined, session |-> -1,
               challengeName |-> Undefined, Session |-> -1, error |-> Undefined]
  IN
  IF d.kind = "AuthenticationResult"
    THEN [base EXCEPT !.success = TRUE, !.username = username]
  ELSE IF d.kind = "Challenge"
    THEN [base EXCEPT !.challenge = d.name, !.session = d.session]
  ELSE [base EXCEPT !.threw = TRUE, !.message = "Invalid username or password"]

\* CognitoService.authenticateUser(username, password), given the directory's
\* answer d.  threw: the promise rejects with message.  The result object has
\* the fields success, user, challenge, session; challengeName, Session and
\* error are fields it never sets, and user has no groups and no email
authenticateUser(d, username) ==
  LET base == [threw |-> FALSE, message |-> Undefined, success |-> FALSE,
               username |-> Undefined, email |-> Undefined, groups |-> None,
               challenge |-> Undefined, session |-> -1,
               challengeName |-> Undefined, Session |-> -1, error |-> Undefined]
  IN
  IF d.kind = "AuthenticationResult"
    THEN [base EXCEPT !.success = TRUE, !.username = username]
  ELSE IF d.kind = "Challenge"
    THEN [base EXCEPT !.challenge = d.name, !.session = d.session]
  ELSE [base EXCEPT !.threw = TRUE,
          !.message = IF d.name = "NotAuthorizedException"
                        THEN "Invalid username or password"
                      ELSE IF d.name = "UserNotConfirmedException"
                        THEN "User account not confirmed"
                      ELSE IF d.name = "UserNotFoundException"
                        THEN "User not found"
                      ELSE "Authentication failed: provider unavailable"]

\* respondToMFAChallenge whose catch block reports success
respondToMFAChallenge_SwallowsError(d, username) ==
  [success |-> TRUE, error |-> Undefined, username |-> username]

\* CognitoService.respondToMFAChallenge(username, session, code), given the
\* directory's answer d; a thrown exception is caught and returned as error
respondToMFAChallenge(d, username) ==
  IF d.kind = "AuthenticationResult"
    THEN [success |-> TRUE, error |-> Undefined, username |-> username]
  ELSE IF d.kind = "Throw"
    THEN [success |-> FALSE, error |-> d.name, username |-> Undefined]
  ELSE [success |-> FALSE, error |-> "MFA challenge failed", username |-> Undefined]

\* CognitoService.addUserToGroup(username, groupName) and
\* CognitoService.removeUserFromGroup(username, groupName), given the
\* directory's answer d: a thrown exception is caught and returned as error
GroupCommandResult(d) ==
  IF d.kind = "Throw" THEN [success |-> FALSE, error |-> d.name]
  ELSE [success |-> TRUE, error |-> Undefined]

\* CognitoService.setUserPassword(username, password), given the directory's
\* answer d: every exception is rethrown as 'Failed to set password: ...'
setUserPassword(d) ==
  IF d.kind = "Throw"
    THEN [threw |-> TRUE, message |-> "Failed to set password"]
  ELSE [threw |-> FALSE, message |-> Undefined]

\* CognitoService.registerUser({username, email, password, attributes,
\* group}), given the directory's answer to AdminCreateUserCommand and what
\* setUserPassword did (when it got that far).  Only username, email,
\* password and attributes are taken from userData: group is not read
registerUser(create, password) ==
  IF create.kind = "Throw"
    THEN [threw |-> TRUE, success |-> FALSE,
          message |-> IF create.name = "UsernameExistsException"
                        THEN "Username already exists"
                      ELSE IF create.name = "InvalidParameterException"
                        THEN "Invalid user data provided"
                      ELSE "User registration failed: provider unavailable"]
  ELSE IF password.threw
    THEN [threw |-> TRUE, success |-> FALSE,
          message |-> "User registration failed: Failed to set password"]
  ELSE [threw |-> FALSE, success |-> TRUE, message |-> Undefined]

\* CognitoService.listGroupsForUser(username), given the directory's answer
\* d: groups is the set of the names of result.Groups
listGroupsForUser(d) ==
  IF d.kind = "Throw" THEN [success |-> FALSE, error |-> d.name, groups |-> {}]
  ELSE [success |-> TRUE, error |-> Undefined, groups |-> d.Groups]

\* updateUserRole: the command that sets the account's status; none for a
\* status that is neither 'suspended' nor 'active'
StatusCommand(status) ==
  IF status = "suspended" THEN "AdminDisableUserCommand"
  ELSE IF status = "active" THEN "AdminEnableUserCommand"
  ELSE Undefined

\* CognitoService.updateUserRole(username, newRole, status) run against the
\* directory memberships groups.  fault names the call at which the provider
\* is unavailable (1 the listing, 2 the removals, 3 the addition, 4 the
\* status command, 5 the attribute update; 0 none).  The result of a removal
\* is not looked at; a failed listing or addition is returned; an exception
\* of the status command or of updateUserAttributes goes to the catch block.
\* after is the directory's memberships when the method returns
updateUserRole(groups, username, newRole, status, fault) ==
  LET listed == Send("AdminListGroupsForUserCommand",
                     DirListGroupsForUser(groups, username, fault = 1))
      currentGroups == listGroupsForUser(listed)
      removed(g) == Send("AdminRemoveUserFromGroupCommand",
                         DirGroupCommand(username, g, fault = 2))
      afterRemove ==
        IF currentGroups.success
          THEN [groups EXCEPT ![username] =
                  {g \in @ : ~(/\ g \in currentGroups.groups
                               /\ Sent("AdminRemoveUserFromGroupCommand",
                                       removed(g)))}]
        ELSE groups
      added == Send("AdminAddUserToGroupCommand",
                    DirGroupCommand(username, newRole, fault = 3))
      groupResult == GroupCommandResult(added)
      afterAdd == IF Sent("AdminAddUserToGroupCommand", added)
                    THEN GroupsAfterAdd(afterRemove, username, newRole, added)
                  ELSE afterRemove
      statusSet == IF StatusCommand(status) = Undefined
                     THEN [kind |-> "Ok", name |-> Undefined, session |-> -1]
                   ELSE Send(StatusCommand(status),
                             DirUserCommand(username, fault = 4))
      updated == Send("AdminUpdateUserAttributesCommand",
                      DirUserCommand(username, fault = 5))
  IN
  IF ~currentGroups.success
    THEN [success |-> FALSE, error |-> currentGroups.error, after |-> groups]
  ELSE IF ~groupResult.success
    THEN [success |-> FALSE, error |-> groupResult.error, after |-> afterRemove]
  ELSE IF statusSet.kind = "Throw"
    THEN [success |-> FALSE, error |-> statusSet.name, after |-> afterAdd]
  ELSE IF updated.kind = "Throw"
    THEN [success |-> FALSE,
          error |-> "Failed to update user attributes", after |-> afterAdd]
  ELSE [success |-> TRUE, error |-> Undefined, after |-> afterAdd]

\* generateQRCode(username, secret): the otpauth URI, by its parts
generateQRCode(username, secret) ==
  [scheme |-> "otpauth://totp/", issuer |-> "Convertool", account |-> username,
   secret |-> secret, algorithm |-> "SHA1", digits |-> 6, period |-> 30]

\* the result objects of the MFA methods: enabled and qrCode are None when
\* the object has no such field, secret is 0 when it has no setupData
MfaResult(success, error) ==
  [success |-> success, error |-> error, enabled |-> None, message |-> Undefined,
   status |-> Undefined, secret |-> 0, qrCode |-> None]

\* getMFAStatus: whether the method goes on to associate a software token
\* after AdminGetUserCommand answered getUser
AssociateAfterGetUser(getUser) ==
  getUser.kind # "Throw" /\ ~getUser.enabled

\* CognitoService.getMFAStatus(username), given the answers to
\* AdminGetUserCommand and to the association (when it got that far)
getMFAStatus(username, getUser, associate) ==
  IF getUser.kind = "Throw" THEN MfaResult(FALSE, getUser.name)
  ELSE IF getUser.enabled
    THEN [MfaResult(TRUE, Undefined) EXCEPT
            !.enabled = Some(TRUE), !.message = "MFA is already enabled"]
  ELSE IF associate.kind = "Throw" THEN MfaResult(FALSE, associate.name)
  ELSE [MfaResult(TRUE, Undefined) EXCEPT
          !.enabled = Some(FALSE), !.secret = associate.SecretCode,
          !.qrCode = Some(generateQRCode(username, associate.SecretCode))]

\* verifyMFA: the command it verifies the code with; secret 0 is a secret
\* that is null, undefined or empty
VerifyCommand(secret) ==
  IF secret # 0 THEN "VerifySoftwareTokenCommand"
  ELSE "AdminVerifySoftwareTokenCommand"

\* verifyMFA enabling MFA whatever the verification answered
EnableAfterVerify_Always(secret, verify) == secret # 0

\* verifyMFA: whether the method goes on to AdminSetUserMFAPreferenceCommand
\* {Enabled: true} after the verification answered verify
EnableAfterVerify(secret, verify) ==
  secret # 0 /\ verify.kind # "Throw"

\* CognitoService.verifyMFA(username, code, secret), given the answers to the
\* verification and to the enabling command (when it got that far)
verifyMFA(secret, verify, enable) ==
  LET thrown == IF verify.kind = "Throw" THEN verify.name
                ELSE IF secret # 0 /\ enable.kind = "Throw" THEN enable.name
                ELSE Undefined
  IN
  IF thrown = "CodeMismatchException" THEN MfaResult(FALSE, "Invalid MFA code")
  ELSE IF thrown # Undefined THEN MfaResult(FALSE, thrown)
  ELSE [MfaResult(TRUE, Undefined) EXCEPT
          !.status = IF secret # 0 THEN "enabled" ELSE "verified",
          !.message = IF secret # 0 THEN "MFA enabled successfully"
                      ELSE "MFA code verified"]

\* disableMFA sending the disabling command whatever verifyMFA returned
DisableAfterVerify_NoCheck(verifyResult) == TRUE

\* disableMFA: whether the method goes on to AdminSetUserMFAPreferenceCommand
\* {Enabled: false} after verifyMFA(username, code) returned verifyResult
DisableAfterVerify(verifyResult) == verifyResult.success

\* CognitoService.disableMFA(username, code), given what verifyMFA returned
\* and the answer to the disabling command (when it got that far)
disableMFA(verifyResult, disable) ==
  IF ~verifyResult.success THEN verifyResult
  ELSE IF disable.kind = "Throw" THEN MfaResult(FALSE, disable.name)
  ELSE [MfaResult(TRUE, Undefined) EXCEPT !.message = "MFA disabled successfully"]

(***************************************************************************)
(* MFAService (services/mfa-service.js): its own login methods.            *)
(***************************************************************************)
\* the result objects of MFAService's login methods: threw is a rejected
\* promise with error as its message; authResult is whether the object's
\* authResult is an AuthenticationResult (and not undefined)
MfaServiceResult(success, message) ==
  [threw |-> FALSE, error |-> Undefined, success |-> success,
   challengeName |-> Undefined, session |-> -1, authResult |-> FALSE,
   message |-> message]

\* MFAService.initiateAuthWithMFA(username, password), given the directory's
\* answer d to AdminInitiateAuthCommand
initiateAuthWithMFA(d) ==
  IF d.kind = "Throw"
    THEN [MfaServiceResult(FALSE, Undefined) EXCEPT
            !.threw = TRUE, !.error = "Authentication failed"]
  ELSE IF d.kind = "Challenge" /\ d.name = "SOFTWARE_TOKEN_MFA"
    THEN [MfaServiceResult(TRUE, "MFA code required") EXCEPT
            !.challengeName = d.name, !.session = d.session]
  ELSE [MfaServiceResult(TRUE, "Authentication successful") EXCEPT
          !.authResult = (d.kind = "AuthenticationResult")]

\* MFAService.respondToMFAChallenge(username, mfaCode, session), given the
\* directory's answer d to AdminRespondToAuthChallengeCommand
MfaServiceRespondToMFAChallenge(d) ==
  IF d.kind = "Throw"
    THEN [MfaServiceResult(FALSE, Undefined) EXCEPT
            !.threw = TRUE, !.error = "MFA challenge failed"]
  ELSE [MfaServiceResult(TRUE, "MFA authentication successful") EXCEPT
          !.authResult = (d.kind = "AuthenticationResult")]

(***************************************************************************)
(* Responses of the route handlers.                                        *)
(***************************************************************************)
Response(status, kind, token, challenge, rsession, error) ==
  [status |-> status, kind |-> kind, token |-> token, challenge |-> challenge,
   rsession |-> rsession, error |-> error]

TokenResponse(token) == Response(200, "token", token, Undefined, -1, Undefined)

ChallengeResponse(challenge, rsession) ==
  Response(200, "challenge", NullToken, challenge, rsession, Undefined)

ErrorResponse(status, error) ==
  Response(status, "error", NullToken, Undefined, -1, error)

\* POST /api/auth/login of the full cloud app, after authenticateUser returned
\* or threw
LoginFullResponse(result, username, now) ==
  IF result.threw THEN ErrorResponse(500, result.message)
  ELSE IF result.success
    THEN TokenResponse(generateJWT(
           [userId |-> result.username, username |-> result.username,
            email |-> OrElse(result.email, ""), role |-> "user",
            groups |-> IF result.groups = None THEN Some({}) ELSE result.groups],
           now))
  ELSE IF result.challengeName = "SMS_MFA" \/ result.challengeName = "SOFTWARE_TOKEN_MFA"
    THEN ChallengeResponse(result.challengeName, result.Session)
  ELSE ErrorResponse(401, OrElse(result.error, "Authentication failed"))

\* POST /api/auth/login of app-cloud.js
LoginCloudResponse(result, now) ==
  IF result.threw THEN ErrorResponse(500, result.message)
  ELSE IF result.success
    THEN TokenResponse(generateJWT(
           [userId |-> result.username, username |-> result.username,
            email |-> OrElse(result.email, ""), role |-> "user", groups |-> None],
           now))
  ELSE IF ~Falsy(result.challenge)
    THEN ChallengeResponse(result.challenge, result.session)
  ELSE ErrorResponse(401, OrElse(result.error, "Authentication failed"))

\* the challenge handler without its check of result.success
MfaChallengeResponse_NoSuccessCheck(result, username, now) ==
  Response(200, "token",
           generateJWT([userId |-> username, username |-> username, email |-> "",
                        role |-> "user", groups |-> Some({})], now),
           Undefined, -1, Undefined)

\* POST /api/auth/mfa-challenge, after respondToMFAChallenge returned
MfaChallengeResponse(result, username, now) ==
  IF result.success
    THEN TokenResponse(generateJWT(
           [userId |-> username, username |-> username, email |-> "",
            role |-> "user", groups |-> Some({})],
           now))
  ELSE ErrorResponse(401, OrElse(result.error, "MFA verification failed"))

\* the local database: db.get('SELECT * FROM users WHERE username = ?') and
\* bcrypt.compare(password, user.password_hash)
DbLookup(u, p, fault) ==
  IF fault \/ u \notin Users THEN "NoUser"
  ELSE IF p # DirPassword(u) THEN "BadPassword"
  ELSE "AuthenticationResult"

\* POST /api/auth/login of the local app
LoginLocalResponse(found, u, now) ==
  IF found = "NoUser" THEN ErrorResponse(401, "Invalid credentials")
  ELSE IF found = "BadPassword" THEN ErrorResponse(401, "Invalid credentials")
  ELSE TokenResponse(LocalSign(u, now))

(***************************************************************************)
(* Actions: one per request handled, plus the passing of time.             *)
(***************************************************************************)
NoDir == [kind |-> Undefined, name |-> Undefined, session |-> -1]

\* the record of a login or challenge request: the inputs (of the password
\* nothing, of the code only its shape), the directory's answer d (when the directory was called) and
\* the response sent
AuthRun(op, u, s, replay, dirCalled, d, resp) ==
  [NoLast EXCEPT !.op = op, !.username = u,
     !.session = s, !.replay = replay,
     !.dirCalled = dirCalled, !.dirKind = d.kind, !.dirName = d.name,
     !.dirSession = d.session,
     !.status = resp.status, !.kind = resp.kind, !.token = resp.token,
     !.challenge = resp.challenge, !.rsession = resp.rsession,
     !.error = resp.error]

Init ==
  /\ clock = StartTime
  /\ dirGroups = [u \in Users |-> IF u = "admin" THEN {"Admin"} ELSE {"User"}]
  /\ dirSessions = [i \in SessionIds |-> FreeSession]
  /\ userGroupMembership = DefaultMembership
  /\ dirMfa = [u \in Users |-> NoMfa]
  /\ last = NoLast
  /\ InitWork

\* wall-clock time passes
Tick ==
  /\ \E t \in Instants : t > clock /\ clock' = t
  /\ UNCHANGED <<dirGroups, dirSessions, last, userGroupMembership, dirMfa, workVars>>

\* POST /api/auth/login, full cloud app
LoginFull ==
  \E body \in LoginBodies, fault \in BOOLEAN,
     second \in {"NONE"} \cup ChallengeKinds :
    LET u == body[1]
        p == body[2]
    IN
    IF Falsy(u) \/ Falsy(p)
      THEN /\ last' = AuthRun("loginFull", u, -1, FALSE, FALSE, NoDir,
                        ErrorResponse(400, "Username and password are required"))
           /\ UNCHANGED <<clock, dirGroups, dirSessions, userGroupMembership, dirMfa, workVars>>
    ELSE LET d == DirInitiateAuth(dirSessions, u, p, fault, second)
             resp == LoginFullResponse(authenticateUser(d, u), u, clock)
         IN /\ d.kind = "Challenge" => d.session # 0
            /\ dirSessions' = SessionsAfterInitiate(dirSessions, u, d)
            /\ last' = AuthRun("loginFull", u, -1, FALSE, TRUE, d, resp)
            /\ UNCHANGED <<clock, dirGroups, userGroupMembership, dirMfa, workVars>>

\* POST /api/auth/login, app-cloud.js
LoginCloud ==
  \E body \in LoginBodies, fault \in BOOLEAN,
     second \in {"NONE"} \cup ChallengeKinds :
    LET u == body[1]
        p == body[2]
    IN
    IF Falsy(u) \/ Falsy(p)
      THEN /\ last' = AuthRun("loginCloud", u, -1, FALSE, FALSE, NoDir,
                        ErrorResponse(400, "Username and password are required"))
           /\ UNCHANGED <<clock, dirGroups, dirSessions, userGroupMembership, dirMfa, workVars>>
    ELSE LET d == DirInitiateAuth(dirSessions, u, p, fault, second)
             resp == LoginCloudResponse(authenticateUser(d, u), clock)
         IN /\ d.kind = "Challenge" => d.session # 0
            /\ dirSessions' = SessionsAfterInitiate(dirSessions, u, d)
            /\ last' = AuthRun("loginCloud", u, -1, FALSE, TRUE, d, resp)
            /\ UNCHANGED <<clock, dirGroups, userGroupMembership, dirMfa, workVars>>

\* POST /api/auth/login, local app
LoginLocal ==
  \E body \in LoginBodies, fault \in BOOLEAN :
    LET u == body[1]
        p == body[2]
        found == DbLookup(u, p, fault)
        resp == LoginLocalResponse(found, u, clock)
    IN /\ last' = AuthRun("loginLocal", u, -1, FALSE, TRUE,
                    [kind |-> found, name |-> Undefined, session |-> -1], resp)
       /\ UNCHANGED <<clock, dirGroups, dirSessions, userGroupMembership, dirMfa, workVars>>

\* whether (u, s, code) repeats a call the directory has already accepted
IsReplay(sessions, u, s, code) ==
  /\ s \in SessionIds
  /\ sessions[s].state = "consumed"
  /\ sessions[s].user = u
  /\ code = DirCode

\* POST /api/auth/mfa-challenge
MfaChallenge ==
  \E body \in MfaBodies, fault \in BOOLEAN, burn \in BOOLEAN :
    LET u == body[1]
        s == body[2]
        code == body[3]
    IN
    IF Falsy(u) \/ s = -1 \/ Falsy(code)
      THEN /\ last' = [AuthRun("mfaChallenge", u, s, FALSE, FALSE, NoDir,
                         ErrorResponse(400, "Username, session, and code are required"))
                       EXCEPT !.codeFormat = CodeFormat(code)]
           /\ UNCHANGED <<clock, dirGroups, dirSessions, userGroupMembership, dirMfa, workVars>>
    ELSE LET d == DirRespondToAuthChallenge(dirSessions, u, s, code, fault)
             resp == MfaChallengeResponse(respondToMFAChallenge(d, u), u, clock)
         IN /\ dirSessions' = SessionsAfterRespond(dirSessions, s, d, burn)
            /\ last' = [AuthRun("mfaChallenge", u, s,
                           IsReplay(dirSessions, u, s, code), TRUE, d, resp)
                         EXCEPT !.codeFormat = CodeFormat(code)]
            /\ UNCHANGED <<clock, dirGroups, userGroupMembership, dirMfa, workVars>>

\* a request to a route guarded by authenticateToken and authorizeGroup('Admin')
\* (GET /api/users), made with the token the client holds (a string that is
\* no JWT when it holds none) or with no Authorization header
AdminRequest ==
  \E hasHeader \in BOOLEAN :
    LET a == authenticateToken(hasHeader, last.token, clock)
        g == authorizeGroup("Admin", a.user)
    IN /\ last' = [NoLast EXCEPT !.op = "adminRequest", !.at = clock,
                     !.token = last.token,
                     !.hasHeader = hasHeader,
                     !.required = <<"Admin">>,
                     !.status = IF a.next THEN g.status ELSE a.status,
                     !.error = IF a.next THEN g.error ELSE a.error,
                     !.kind = IF a.next /\ g.next THEN "handled" ELSE "error",
                     !.user = a.user,
                     !.next = a.next /\ g.next]
       /\ UNCHANGED <<clock, dirGroups, dirSessions, userGroupMembership, dirMfa, workVars>>

\* CognitoService.verifyToken applied to the token the client holds
VerifyHeld ==
  /\ LET v == verifyToken(last.token, clock)
     IN last' = [NoLast EXCEPT !.op = "verifyToken", !.at = clock,
                   !.token = last.token, !.success = v.success,
                   !.error = v.error, !.username = v.username,
                   !.groups = v.groups,
                   !.kind = IF v.success THEN "claims" ELSE "error"]
  /\ UNCHANGED <<clock, dirGroups, dirSessions, userGroupMembership, dirMfa, workVars>>

Next ==
  \/ Tick
  \/ LoginFull
  \/ LoginCloud
  \/ LoginLocal
  \/ MfaChallenge
  \/ AdminRequest
  \/ VerifyHeld

Spec == Init /\ [][Next]_vars

(***************************************************************************)
(* The token issuer and the two verifiers as functions: tokens are issued  *)
(* for drawn subjects and groups, or crafted by a client, and then         *)
(* presented to authenticateToken / authorizeGroup and to verifyToken.     *)
(***************************************************************************)
\* tokens a client can put in the Authorization header without having logged
\* in: a string that is no JWT, and JWTs with any payload, signed with the
\* process key (another issuer holding it) or with a key of the client's own
CraftedTokens ==
  {NullToken} \cup
  {[wellFormed |-> TRUE, userId |-> u, username |-> u, email |-> "",
    role |-> "user", groups |-> g, iat |-> None, exp |-> e, sig |-> k] :
     u \in {"admin", Undefined},
     g \in {None, Some({"Admin"})},
     e \in {None, Some(0), Some(StartTime), Some(StartTime + TokenTTL)},
     k \in {JWT_SECRET, "client-key"}}

InitToken ==
  /\ clock \in Instants
  /\ dirGroups = [u \in Users |-> IF u = "admin" THEN {"Admin"} ELSE {"User"}]
  /\ dirSessions = [i \in SessionIds |-> FreeSession]
  /\ userGroupMembership = DefaultMembership
  /\ dirMfa = [u \in Users |-> NoMfa]
  /\ last = NoLast
  /\ InitWork

\* cognitoService.generateJWT({userId, username, email, role,
\* 'cognito:groups': groups}) for a drawn subject and group list
IssueToken ==
  \E subject \in Users, groups \in SUBSET Groups :
    /\ last' = [NoLast EXCEPT !.op = "issue", !.username = subject,
                  !.groups = groups, !.kind = "token",
                  !.token = generateJWT(
                     [userId |-> subject, username |-> subject, email |-> "",
                      role |-> "user", groups |-> Some(groups)], clock)]
    /\ UNCHANGED <<clock, dirGroups, dirSessions, userGroupMembership, dirMfa, workVars>>

\* a client picks the token it will present
CraftToken ==
  \E token \in CraftedTokens :
    /\ last' = [NoLast EXCEPT !.op = "craft", !.token = token]
    /\ UNCHANGED <<clock, dirGroups, dirSessions, userGroupMembership, dirMfa, workVars>>

NextToken ==
  \/ Tick
  \/ IssueToken
  \/ CraftToken
  \/ AdminRequest
  \/ VerifyHeld

SpecToken == InitToken /\ [][NextToken]_vars

(***************************************************************************)
(* Group membership: the in-process table of the local app with its guard, *)
(* and the directory's groups with the guard of the cloud app.             *)
(***************************************************************************)
\* the arguments of requireGroup: 'Admin' and 'User' as the routes pass them,
\* and arrays of group names
GuardArgs ==
  {GuardName(g) : g \in Groups}
    \cup {GuardList(l) : l \in {<<>>, <<"Admin">>, <<"User", "Admin">>}}

\* usernames and group names passed to the membership operations
MemberNames == Users \cup {"ghost"}
GroupNames == Groups \cup {"Moderator"}

\* the record of a membership operation on username p and group g: before is
\* p's group list when the operation starts, d the answer to the command it
\* sends (NoDir when it sends none)
GroupRun(op, p, g, before, d, result) ==
  [NoLast EXCEPT !.op = op, !.username = p, !.group = g,
     !.token = last.token, !.userGroups = Some(before),
     !.dirCalled = d.kind # Undefined /\ d.name # "TypeError",
     !.dirKind = d.kind, !.dirName = d.name,
     !.success = result.success, !.error = result.error,
     !.kind = IF result.success THEN "done" ELSE "error"]

\* the members of a set of group names as a list, for comparing a directory
\* membership with a list of the table
SetAsList(groups) ==
  IF groups = {} THEN <<>>
  ELSE IF groups = {"Admin"} THEN <<"Admin">>
  ELSE IF groups = {"User"} THEN <<"User">>
  ELSE <<"Admin", "User">>

\* cognitoGroups.addUserToGroup(p, g)
StoreAdd ==
  \E p \in Users, g \in Groups :
    /\ userGroupMembership' = addUserToGroup(userGroupMembership, p, g)
    /\ last' = GroupRun("storeAdd", p, g, getUserGroups(userGroupMembership, p),
                  NoDir, [success |-> TRUE, error |-> Undefined])
    /\ UNCHANGED <<clock, dirGroups, dirSessions, dirMfa, workVars>>

\* cognitoGroups.removeUserFromGroup(p, g)
StoreRemove ==
  \E p \in Users, g \in Groups :
    /\ userGroupMembership' = removeUserFromGroup(userGroupMembership, p, g)
    /\ last' = GroupRun("storeRemove", p, g, getUserGroups(userGroupMembership, p),
                  NoDir, [success |-> TRUE, error |-> Undefined])
    /\ UNCHANGED <<clock, dirGroups, dirSessions, dirMfa, workVars>>

\* CognitoService.addUserToGroup(p, g)
DirAdd ==
  \E p \in MemberNames, g \in GroupNames, fault \in BOOLEAN :
    LET d == Send("AdminAddUserToGroupCommand", DirGroupCommand(p, g, fault))
    IN /\ dirGroups' = IF Sent("AdminAddUserToGroupCommand", d)
                         THEN GroupsAfterAdd(dirGroups, p, g, d)
                       ELSE dirGroups
       /\ last' = GroupRun("dirAdd", p, g,
                     IF p \in Users THEN SetAsList(dirGroups[p]) ELSE <<>>,
                     d, GroupCommandResult(d))
       /\ UNCHANGED <<clock, dirSessions, userGroupMembership, dirMfa, workVars>>

\* CognitoService.removeUserFromGroup(p, g)
DirRemove ==
  \E p \in MemberNames, g \in GroupNames, fault \in BOOLEAN :
    LET d == Send("AdminRemoveUserFromGroupCommand", DirGroupCommand(p, g, fault))
    IN /\ dirGroups' = IF Sent("AdminRemoveUserFromGroupCommand", d)
                         THEN GroupsAfterRemove(dirGroups, p, g, d)
                       ELSE dirGroups
       /\ last' = GroupRun("dirRemove", p, g,
                     IF p \in Users THEN SetAsList(dirGroups[p]) ELSE <<>>,
                     d, GroupCommandResult(d))
       /\ UNCHANGED <<clock, dirSessions, userGroupMembership, dirMfa, workVars>>

\* role and status arguments of updateUserRole: group names, a role in the
\* lower case of the method's documentation, and statuses
RoleNames == GroupNames \cup {"admin"}
StatusNames == {"active", "suspended", Undefined}

\* CognitoService.listGroupsForUser(p)
ListGroups ==
  \E p \in MemberNames, fault \in BOOLEAN :
    LET d == Send("AdminListGroupsForUserCommand",
                  DirListGroupsForUser(dirGroups, p, fault))
        result == listGroupsForUser(d)
    IN /\ last' = [GroupRun("listGroups", p, Undefined,
                      IF p \in Users THEN SetAsList(dirGroups[p]) ELSE <<>>,
                      d, result)
                    EXCEPT !.groups = result.groups]
       /\ UNCHANGED <<clock, dirGroups, dirSessions, userGroupMembership, dirMfa, workVars>>

\* CognitoService.updateUserRole(p, newRole, status); a status that is not
\* given is 'active'
UpdateRole ==
  \E p \in MemberNames, newRole \in RoleNames, status \in StatusNames,
     fault \in 0..5 :
    LET run == updateUserRole(dirGroups, p, newRole,
                              IF status = Undefined THEN "active" ELSE status,
                              fault)
        d == Send("AdminListGroupsForUserCommand",
                  DirListGroupsForUser(dirGroups, p, fault = 1))
    IN /\ dirGroups' = run.after
       /\ last' = GroupRun("updateUserRole", p, newRole,
                     IF p \in Users THEN SetAsList(dirGroups[p]) ELSE <<>>,
                     d, run)
       /\ UNCHANGED <<clock, dirSessions, userGroupMembership, dirMfa, workVars>>

\* a request to a route of the local app guarded by authenticateToken and
\* requireGroup(allowedGroups), made with the token the client holds
GuardedRequest ==
  \E hasHeader \in BOOLEAN, allowedGroups \in GuardArgs :
    LET a == authenticateToken(hasHeader, last.token, clock)
        g == requireGroup(allowedGroups, a.user, userGroupMembership)
    IN /\ last' = [NoLast EXCEPT !.op = "guardedRequest", !.at = clock,
                     !.token = last.token,
                     !.hasHeader = hasHeader,
                     !.required = GroupsArray(allowedGroups),
                     !.status = IF a.next THEN g.status ELSE a.status,
                     !.error = IF a.next THEN g.error ELSE a.error,
                     !.kind = IF a.next /\ g.next THEN "handled" ELSE "error",
                     !.user = a.user,
                     !.userGroups = IF a.next THEN g.userGroups ELSE None,
                     !.groups = IF a.next /\ g.next
                                  THEN {g.groups[1][i] : i \in 1..Len(g.groups[1])}
                                ELSE {},
                     !.next = a.next /\ g.next]
       /\ UNCHANGED <<clock, dirGroups, dirSessions, userGroupMembership, dirMfa, workVars>>

\* the local app: its login, the table's operations and its guarded routes
NextStore ==
  \/ LoginLocal
  \/ StoreAdd
  \/ StoreRemove
  \/ GuardedRequest

SpecStore == Init /\ [][NextStore]_vars

\* the cloud app: its login, the directory's group commands and its guarded
\* routes
NextDirGroups ==
  \/ LoginFull
  \/ DirAdd
  \/ DirRemove
  \/ AdminRequest

SpecDirGroups == Init /\ [][NextDirGroups]_vars

\* the local app over time: tokens age while the table changes
NextSnapshot ==
  \/ Tick
  \/ LoginLocal
  \/ StoreAdd
  \/ StoreRemove
  \/ GuardedRequest

SpecSnapshot == Init /\ [][NextSnapshot]_vars

\* the cloud app with the listing and the role update of its administrative
\* routes
NextRoles ==
  \/ LoginFull
  \/ DirAdd
  \/ DirRemove
  \/ ListGroups
  \/ UpdateRole
  \/ AdminRequest

SpecRoles == Init /\ [][NextRoles]_vars

\* the membership operations of both stores on their own
NextMembership ==
  \/ StoreAdd
  \/ StoreRemove
  \/ DirAdd
  \/ DirRemove

SpecMembership == Init /\ [][NextMembership]_vars

(***************************************************************************)
(* Registration, and the login of a registered principal.                  *)
(***************************************************************************)
\* req.body of POST /api/auth/register: <<username, email, password>>
RegisterBodies ==
  {<<"newbie", "newbie@example.com", "newbie123">>,
   <<"guest", "guest@example.com", "guest123">>,
   <<"admin", "admin@example.com", "admin123">>,
   <<"", "newbie@example.com", "newbie123">>,
   <<"newbie", "", "newbie123">>,
   <<"newbie", "newbie@example.com", "">>}

\* POST /api/auth/register of the cloud app
Register ==
  \E body \in RegisterBodies, fault \in BOOLEAN :
    LET u == body[1]
        email == body[2]
        p == body[3]
    IN
    IF Falsy(u) \/ Falsy(email) \/ Falsy(p)
      THEN /\ last' = AuthRun("register", u, -1, FALSE, FALSE, NoDir,
                        ErrorResponse(400, "Username, email, and password are required"))
           /\ UNCHANGED <<clock, dirGroups, dirSessions, userGroupMembership,
                          dirMfa, calls, jobs, completedJobs, dirAccounts>>
    ELSE LET create == Send("AdminCreateUserCommand",
                            DirCreateUser(dirAccounts, u, fault))
             created == Sent("AdminCreateUserCommand", create)
             set == IF created
                      THEN Send("AdminSetUserPasswordCommand",
                                DirUserCommand(u, FALSE))
                    ELSE NoDir
             result == registerUser(create, setUserPassword(set))
             resp == IF result.threw THEN ErrorResponse(500, result.message)
                     ELSE IF result.success
                       THEN Response(200, "registered", NullToken, Undefined,
                                     -1, Undefined)
                     ELSE ErrorResponse(400, "Registration failed")
         IN /\ dirAccounts' =
                 IF created
                   THEN AccountsAfterPassword(
                          AccountsAfterCreate(dirAccounts, u, p, create), u, p,
                          IF Sent("AdminSetUserPasswordCommand", set)
                            THEN [kind |-> "Ok"] ELSE [kind |-> "Throw"])
                 ELSE dirAccounts
            /\ last' = [AuthRun("register", u, -1, FALSE, TRUE, create, resp)
                          EXCEPT !.group = "User", !.success = result.success]
            /\ UNCHANGED <<clock, dirGroups, dirSessions, userGroupMembership,
                           dirMfa, calls, jobs, completedJobs>>

\* POST /api/auth/login of the cloud app by a principal created on
\* registration
LoginRegistered ==
  \E body \in RegisterBodies, fault \in BOOLEAN :
    LET u == body[1]
        p == body[3]
        d == Send("AdminInitiateAuthCommand",
                  DirInitiateAuthRegistered(dirAccounts, dirSessions, u, p, fault))
        resp == LoginFullResponse(authenticateUser(d, u), u, clock)
    IN /\ ~Falsy(u) /\ ~Falsy(p)
       /\ d.kind = "Challenge" => d.session # 0
       /\ dirSessions' = SessionsAfterInitiate(dirSessions, u, d)
       /\ last' = AuthRun("loginRegistered", u, -1, FALSE, TRUE, d, resp)
       /\ UNCHANGED <<clock, dirGroups, userGroupMembership, dirMfa, calls,
                      jobs, completedJobs, dirAccounts>>

NextRegister ==
  \/ Register
  \/ LoginRegistered

SpecRegister == Init /\ [][NextRegister]_vars

(***************************************************************************)
(* Video-processing jobs: POST /api/media/process-video/:fileId starts a   *)
(* job and a 100 ms interval timer; the timer's callback advances the      *)
(* progress and, once it has reached 100, marks the job completed, awaits  *)
(* the update of the processing record, stores the job in completedJobs    *)
(* and clears the timer.  The job routes read completedJobs.               *)
(***************************************************************************)
JobIds == 1..MaxJobs

\* const jobId = Date.now(): an id no job started before has
NextJobId == Cardinality(DOMAIN jobs) + 1

\* jobInfo and the closure of a job just started: reached is progress >= 100,
\* timer is whether the interval is set, pending the number of callbacks
\* waiting in 'await rdsService.updateProcessingRecord', recordUpdates and
\* stored the number of times the record update was called and the job was
\* put into completedJobs
NewJob(userId) ==
  [userId |-> userId, status |-> "processing", reached |-> FALSE,
   timer |-> TRUE, pending |-> 0, recordUpdates |-> 0, stored |-> 0]

\* the record of a request to a job route that authenticateToken answered
\* with a
JobRun(op, a, jobId, status, error, returned) ==
  [NoLast EXCEPT !.op = op, !.at = clock, !.token = last.token,
     !.hasHeader = TRUE, !.user = a.user, !.next = a.next,
     !.jobId = jobId,
     !.status = IF a.next THEN status ELSE a.status,
     !.error = IF a.next THEN error ELSE a.error,
     !.kind = IF a.next /\ status = 200 THEN "handled" ELSE "error",
     !.returned = IF a.next THEN returned ELSE {}]

\* what the services answer a process-video request with: the file is
\* found and the processing record created, the file is not found for the
\* caller, or a service call throws
FileOutcomes == {"found", "none", "throws"}

\* POST /api/media/process-video/:fileId, with the token the client holds;
\* hasSpeed is whether the body's speedMultiplier is truthy (it defaults to
\* 1.0), file is the services' answer
StartJob ==
  \E hasSpeed \in BOOLEAN, file \in FileOutcomes :
    LET a == authenticateToken(TRUE, last.token, clock)
        jobId == NextJobId
        started == a.next /\ hasSpeed /\ file = "found"
    IN /\ jobId \in JobIds
       /\ jobs' = IF started
                    THEN [j \in DOMAIN jobs \cup {jobId} |->
                            IF j = jobId THEN NewJob(a.user.userId)
                            ELSE jobs[j]]
                  ELSE jobs
       /\ last' = IF ~hasSpeed
                    THEN JobRun("processVideo", a, 0, 400,
                                "Speed multiplier required", {})
                  ELSE IF file = "none"
                    THEN JobRun("processVideo", a, 0, 404,
                                "File not found or access denied", {})
                  ELSE IF file = "throws"
                    THEN JobRun("processVideo", a, 0, 500, "error.message", {})
                  ELSE JobRun("processVideo", a, jobId, 200, Undefined, {})
       /\ UNCHANGED <<clock, dirGroups, dirSessions, userGroupMembership,
                      dirMfa, calls, completedJobs, dirAccounts>>

\* the interval's callback of job j up to its await: reaches is whether
\* progress += Math.random() * 15 takes the progress to 100 (it stays there
\* once reached); then the job is marked completed and the record update
\* is called and awaited
TimerTick(j) ==
  \E reaches \in BOOLEAN :
    /\ j \in DOMAIN jobs
    /\ jobs[j].timer
    /\ jobs[j].pending < MaxPending
    /\ jobs' = IF jobs[j].reached \/ reaches
                 THEN [jobs EXCEPT ![j].reached = TRUE,
                                   ![j].status = "completed",
                                   ![j].pending = @ + 1,
                                   ![j].recordUpdates = @ + 1]
               ELSE jobs
    /\ UNCHANGED <<clock, dirGroups, dirSessions, userGroupMembership, dirMfa,
                   last, calls, completedJobs, dirAccounts>>

\* the rest of a callback of job j after its await (the record update has
\* resolved, or has rejected and the error was logged):
\* completedJobs.set(jobId, jobInfo) and clearInterval(interval)
UpdateDone(j) ==
  /\ j \in DOMAIN jobs
  /\ jobs[j].pending > 0
  /\ jobs' = [jobs EXCEPT ![j].pending = @ - 1, ![j].timer = FALSE,
                          ![j].stored = @ + 1]
  /\ completedJobs' =
       [i \in DOMAIN completedJobs \cup {j} |->
          IF i = j THEN [id |-> j, userId |-> jobs[j].userId,
                         status |-> jobs[j].status]
          ELSE completedJobs[i]]
  /\ UNCHANGED <<clock, dirGroups, dirSessions, userGroupMembership, dirMfa,
                 last, calls, dirAccounts>>

\* GET /api/media/job-status/:jobId of the full cloud app (part_000)
JobStatusFull ==
  \E jobId \in JobIds :
    LET a == authenticateToken(TRUE, last.token, clock)
    IN /\ last' = IF jobId \notin DOMAIN completedJobs
                    THEN JobRun("jobStatusFull", a, jobId, 404, "Job not found", {})
                  ELSE JobRun("jobStatusFull", a, jobId, 200, Undefined, {jobId})
       /\ UNCHANGED <<clock, dirGroups, dirSessions, userGroupMembership,
                      dirMfa, workVars>>

\* GET /api/media/job-status/:jobId of app-cloud.js
JobStatusCloud ==
  \E jobId \in JobIds :
    LET a == authenticateToken(TRUE, last.token, clock)
    IN /\ last' = IF jobId \notin DOMAIN completedJobs
                    THEN JobRun("jobStatusCloud", a, jobId, 404, "Job not found", {})
                  ELSE IF completedJobs[jobId].userId # a.user.userId
                    THEN JobRun("jobStatusCloud", a, jobId, 403, "Access denied", {})
                  ELSE JobRun("jobStatusCloud", a, jobId, 200, Undefined, {jobId})
       /\ UNCHANGED <<clock, dirGroups, dirSessions, userGroupMembership,
                      dirMfa, workVars>>

\* GET /api/media/completed-jobs
CompletedJobsList ==
  LET a == authenticateToken(TRUE, last.token, clock)
      userJobs == {j \in DOMAIN completedJobs :
                     completedJobs[j].userId = a.user.userId}
  IN /\ last' = JobRun("completedJobs", a, 0, 200, Undefined, userJobs)
     /\ UNCHANGED <<clock, dirGroups, dirSessions, userGroupMembership,
                    dirMfa, workVars>>

NextJobs ==
  \/ LoginFull
  \/ LoginCloud
  \/ StartJob
  \/ \E j \in JobIds : TimerTick(j)
  \/ \E j \in JobIds : UpdateDone(j)
  \/ JobStatusFull
  \/ JobStatusCloud
  \/ CompletedJobsList

SpecJobs == Init /\ [][NextJobs]_vars

(***************************************************************************)
(* MFAService's login methods called against the directory.                *)
(***************************************************************************)
\* the record of a call of an MFAService login method for username u (and
\* session s) that the directory answered with d
MfaServiceRun(op, u, s, d, result) ==
  [NoLast EXCEPT !.op = op, !.username = u, !.session = s,
     !.dirCalled = TRUE, !.dirKind = d.kind, !.dirName = d.name,
     !.dirSession = d.session,
     !.success = result.success, !.error = result.error,
     !.message = result.message, !.authResult = result.authResult,
     !.challenge = result.challengeName, !.rsession = result.session,
     !.kind = IF result.threw THEN "error"
              ELSE IF result.challengeName # Undefined THEN "challenge"
              ELSE "result"]

\* mfaService.initiateAuthWithMFA(username, password)
InitiateAuthWithMFA ==
  \E body \in LoginBodies, fault \in BOOLEAN,
     second \in {"NONE"} \cup ChallengeKinds :
    LET u == body[1]
        p == body[2]
        d == Send("AdminInitiateAuthCommand",
                  DirInitiateAuth(dirSessions, u, p, fault, second))
    IN /\ d.kind = "Challenge" => d.session # 0
       /\ dirSessions' = SessionsAfterInitiate(dirSessions, u, d)
       /\ last' = MfaServiceRun("initiateAuthWithMFA", u, -1, d,
                                initiateAuthWithMFA(d))
       /\ UNCHANGED <<clock, dirGroups, userGroupMembership, dirMfa, workVars>>

\* mfaService.respondToMFAChallenge(username, mfaCode, session)
MfaServiceRespond ==
  \E body \in MfaBodies, fault \in BOOLEAN, burn \in BOOLEAN :
    LET u == body[1]
        s == body[2]
        code == body[3]
        d == Send("AdminRespondToAuthChallengeCommand",
                  DirRespondToAuthChallenge(dirSessions, u, s, code, fault))
    IN /\ dirSessions' = SessionsAfterRespond(dirSessions, s, d, burn)
       /\ last' = MfaServiceRun("mfaServiceRespond", u, s, d,
                                MfaServiceRespondToMFAChallenge(d))
       /\ UNCHANGED <<clock, dirGroups, userGroupMembership, dirMfa, workVars>>

NextMfaService ==
  \/ InitiateAuthWithMFA
  \/ MfaServiceRespond

SpecMfaService == Init /\ [][NextMfaService]_vars

(***************************************************************************)
(* Callers of the in-process table at the same time.  Each call of         *)
(* addUserToGroup / removeUserFromGroup is followed through its two        *)
(* accesses of the Map: the get that reads the caller's list and the set   *)
(* that writes the new list.                                               *)
(***************************************************************************)
Callers == 1..MaxCallers

\* the calls a caller can make: pc is "called" before the function's first
\* line, "read" after userGroupMembership.get, "returned" at the end;
\* userGroups is the function's local variable
StoreCalls ==
  [op : {"addUserToGroup", "removeUserFromGroup"}, username : Users,
   groupName : Groups, pc : {"called"}, userGroups : {<<>>}]

\* whether another callback can run between the get and the set of a call
\* under way, as it could if the function awaited in between
YieldsAfterGet_Await == TRUE

\* whether another callback can run between the get and the set of a call:
\* addUserToGroup and removeUserFromGroup are synchronous functions, they
\* run from their first to their last line without giving up the thread
YieldsAfterGet == FALSE

\* let userGroups = userGroupMembership.get(username) || [], in call i
CallGet(i) ==
  /\ i \in DOMAIN calls
  /\ calls[i].pc = "called"
  /\ YieldsAfterGet \/ \A j \in DOMAIN calls : calls[j].pc # "read"
  /\ calls' = [calls EXCEPT
                 ![i].pc = "read",
                 ![i].userGroups =
                    getUserGroups(userGroupMembership, calls[i].username)]
  /\ UNCHANGED <<clock, dirGroups, dirSessions, userGroupMembership, dirMfa,
                 last, jobs, completedJobs, dirAccounts>>

\* the rest of call i: push when the list read does not include the group,
\* or filter, and userGroupMembership.set(username, userGroups)
CallSet(i) ==
  /\ i \in DOMAIN calls
  /\ calls[i].pc = "read"
  /\ LET c == calls[i] IN
     userGroupMembership' =
       IF c.op = "addUserToGroup"
         THEN IF ~Includes(c.userGroups, c.groupName)
                THEN [userGroupMembership EXCEPT
                        ![c.username] = Append(c.userGroups, c.groupName)]
              ELSE userGroupMembership
       ELSE [userGroupMembership EXCEPT
               ![c.username] =
                  SelectSeq(c.userGroups, LAMBDA group : group # c.groupName)]
  /\ calls' = [calls EXCEPT ![i].pc = "returned"]
  /\ UNCHANGED <<clock, dirGroups, dirSessions, dirMfa, last, jobs,
                 completedJobs, dirAccounts>>

\* every caller has made one call on the table as the application starts it
InitRace ==
  /\ clock = StartTime
  /\ dirGroups = [u \in Users |-> IF u = "admin" THEN {"Admin"} ELSE {"User"}]
  /\ dirSessions = [i \in SessionIds |-> FreeSession]
  /\ userGroupMembership = DefaultMembership
  /\ dirMfa = [u \in Users |-> NoMfa]
  /\ last = NoLast
  /\ calls \in [Callers -> StoreCalls]
  /\ jobs = <<>>
  /\ completedJobs = <<>>
  /\ dirAccounts = <<>>

NextRace ==
  \/ \E i \in Callers : CallGet(i)
  \/ \E i \in Callers : CallSet(i)

SpecRace == InitRace /\ [][NextRace]_vars

(***************************************************************************)
(* MFA enrolment: the routes mfa-status, enable-mfa, verify-mfa and        *)
(* disable-mfa of the cloud app, each behind authenticateToken.            *)
(***************************************************************************)
\* req.body of POST /api/auth/verify-mfa: <<code, secret>>
VerifyBodies == {DirCode, "000000"} \X (0..MaxSecrets)

\* the commands of a handler run that reached the directory, in order
Reached(command) == IF command \in CognitoCommands THEN <<command>> ELSE <<>>

\* the record of an MFA request that authenticateToken passed on with a: d
\* is the answer to its first command, commands those that reached the
\* directory
MfaRun(op, a, d, commands, result) ==
  [NoLast EXCEPT !.op = op, !.username = a.user.username,
     !.token = last.token, !.hasHeader = TRUE, !.user = a.user,
     !.next = TRUE, !.status = 200, !.kind = "result",
     !.dirCalled = commands # <<>>, !.dirKind = d.kind, !.dirName = d.name,
     !.commands = commands, !.mfaBefore = dirMfa[a.user.username].enabled,
     !.success = result.success, !.error = result.error,
     !.enabled = result.enabled, !.secret = result.secret,
     !.qrCode = result.qrCode]

\* the record of an MFA request that authenticateToken turned down with a
\* or whose handler threw
MfaRefused(op, a) ==
  [NoLast EXCEPT !.op = op, !.token = last.token, !.hasHeader = TRUE,
     !.status = a.status, !.error = a.error, !.kind = "error"]

\* GET /api/auth/mfa-status
MfaStatus ==
  \E fault \in 0..2 :
    LET a == authenticateToken(TRUE, last.token, clock)
        u == a.user.username
        g == Send("AdminGetUserCommand", DirGetUser(dirMfa, u, fault = 1))
        associates == AssociateAfterGetUser(g)
        s == IF associates
               THEN Send("AdminAssociateSoftwareTokenCommand",
                         DirAssociateSoftwareToken(dirMfa, u, fault = 2))
             ELSE NoDir
    IN IF ~a.next
         THEN /\ last' = MfaRefused("mfaStatus", a)
              /\ UNCHANGED <<clock, dirGroups, dirSessions, userGroupMembership, dirMfa, workVars>>
       ELSE /\ dirMfa' = IF associates /\ Sent("AdminAssociateSoftwareTokenCommand", s)
                           THEN MfaAfterAssociate(dirMfa, u, s)
                         ELSE dirMfa
            /\ last' = MfaRun("mfaStatus", a, g,
                          Reached("AdminGetUserCommand")
                            \o IF associates
                                 THEN Reached("AdminAssociateSoftwareTokenCommand")
                               ELSE <<>>,
                          getMFAStatus(u, g, s))
            /\ UNCHANGED <<clock, dirGroups, dirSessions, userGroupMembership, workVars>>

\* POST /api/auth/enable-mfa: cognitoService.setupMFA is no method of
\* CognitoService, the call throws a TypeError and the handler answers 500
EnableMfa ==
  LET a == authenticateToken(TRUE, last.token, clock)
  IN /\ last' = IF ~a.next THEN MfaRefused("enableMfa", a)
                ELSE [MfaRefused("enableMfa",
                        [status |-> 500,
                         error |-> "cognitoService.setupMFA is not a function"])
                      EXCEPT !.username = a.user.username, !.user = a.user,
                             !.next = TRUE,
                             !.mfaBefore = dirMfa[a.user.username].enabled]
     /\ UNCHANGED <<clock, dirGroups, dirSessions, userGroupMembership, dirMfa, workVars>>

\* POST /api/auth/verify-mfa
VerifyMfa ==
  \E body \in VerifyBodies, fault \in 0..2 :
    LET code == body[1]
        secret == body[2]
        a == authenticateToken(TRUE, last.token, clock)
        u == a.user.username
        v == Send(VerifyCommand(secret), DirVerifySoftwareToken(code, fault = 1))
        enables == EnableAfterVerify(secret, v)
        e == IF enables
               THEN Send("AdminSetUserMFAPreferenceCommand",
                         DirSetUserMFAPreference(u, fault = 2))
             ELSE NoDir
    IN IF ~a.next
         THEN /\ last' = MfaRefused("verifyMfa", a)
              /\ UNCHANGED <<clock, dirGroups, dirSessions, userGroupMembership, dirMfa, workVars>>
       ELSE /\ dirMfa' = IF enables /\ Sent("AdminSetUserMFAPreferenceCommand", e)
                           THEN MfaAfterPreference(dirMfa, u, TRUE, e)
                         ELSE dirMfa
            /\ last' = [MfaRun("verifyMfa", a, v,
                           Reached(VerifyCommand(secret))
                             \o IF enables
                                  THEN Reached("AdminSetUserMFAPreferenceCommand")
                                ELSE <<>>,
                           verifyMFA(secret, v, e))
                        EXCEPT !.secret = secret]
            /\ UNCHANGED <<clock, dirGroups, dirSessions, userGroupMembership, workVars>>

\* POST /api/auth/disable-mfa
DisableMfa ==
  \E code \in {DirCode, "000000"}, fault \in 0..2 :
    LET a == authenticateToken(TRUE, last.token, clock)
        u == a.user.username
        v == Send(VerifyCommand(0), DirVerifySoftwareToken(code, fault = 1))
        verifyResult == verifyMFA(0, v, NoDir)
        disables == DisableAfterVerify(verifyResult)
        d == IF disables
               THEN Send("AdminSetUserMFAPreferenceCommand",
                         DirSetUserMFAPreference(u, fault = 2))
             ELSE NoDir
    IN IF ~a.next
         THEN /\ last' = MfaRefused("disableMfa", a)
              /\ UNCHANGED <<clock, dirGroups, dirSessions, userGroupMembership, dirMfa, workVars>>
       ELSE /\ dirMfa' = IF disables /\ Sent("AdminSetUserMFAPreferenceCommand", d)
                           THEN MfaAfterPreference(dirMfa, u, FALSE, d)
                         ELSE dirMfa
            /\ last' = MfaRun("disableMfa", a, v,
                          Reached(VerifyCommand(0))
                            \o IF disables
                                 THEN Reached("AdminSetUserMFAPreferenceCommand")
                               ELSE <<>>,
                          disableMFA(verifyResult, d))
            /\ UNCHANGED <<clock, dirGroups, dirSessions, userGroupMembership, workVars>>

\* the directory may hold principals whose MFA was enabled earlier
InitMfa ==
  /\ clock = StartTime
  /\ dirGroups = [u \in Users |-> IF u = "admin" THEN {"Admin"} ELSE {"User"}]
  /\ dirSessions = [i \in SessionIds |-> FreeSession]
  /\ userGroupMembership = DefaultMembership
  /\ dirMfa \in [Users -> {NoMfa, [enabled |-> TRUE, secret |-> 1]}]
  /\ last = NoLast
  /\ InitWork

NextMfa ==
  \/ LoginFull
  \/ MfaStatus
  \/ EnableMfa
  \/ VerifyMfa
  \/ DisableMfa

SpecMfa == InitMfa /\ [][NextMfa]_vars

(***************************************************************************)
(* Properties.                                                             *)
(***************************************************************************)
LoginOps == {"loginFull", "loginCloud", "loginLocal"}

\* the instants from the issuance of token up to, not including, its expiry
ValidInstants(token) ==
  {t \in Instants : token.iat[1] <= t /\ t < token.iat[1] + TokenTTL}

\* C1: a login or challenge response carries a token only when the directory
\* was called in that run and answered with an AuthenticationResult (never
\* after a challenge, a rejection or an error); the token is for the username
\* of the request, and on the challenge path the session answered is one the
\* directory opened for that username
C1_TokenOnlyAfterVerification ==
  (last.op \in LoginOps \cup {"mfaChallenge"} /\ last.kind = "token") =>
     /\ last.dirCalled
     /\ last.dirKind = "AuthenticationResult"
     /\ last.token.username = last.username
     /\ last.op = "mfaChallenge" =>
          /\ last.session \in SessionIds
          /\ dirSessions[last.session].user = last.username
          /\ dirSessions[last.session].state = "consumed"

\* a token has been issued on the challenge path
C1_Witness == last.op = "mfaChallenge" /\ last.kind = "token"

\* C2: when the directory accepts the password with no second factor, login
\* returns a token that authenticateToken accepts at every instant from
\* issuance up to its expiry, attaching the username that was supplied
C2_LoginTokenVerifies ==
  (last.op \in LoginOps /\ last.dirKind = "AuthenticationResult") =>
     /\ last.kind = "token"
     /\ \A t \in ValidInstants(last.token) :
          LET a == authenticateToken(TRUE, last.token, t)
          IN a.next /\ a.user.username = last.username

\* the full cloud login has answered an accepted password with a token
C2_Witness ==
  /\ last.op = "loginFull"
  /\ last.dirKind = "AuthenticationResult"
  /\ last.kind = "token"
  /\ last.username = "user"

\* C3: verifying the token issued for (subject, groups) returns the same
\* subject and the same set of groups
C3_RoundTrip ==
  last.op = "issue" =>
     LET a == authenticateToken(TRUE, last.token, last.token.iat[1])
     IN /\ a.next
        /\ a.user.username = last.username
        /\ ClaimedGroups(a.user) = last.groups

\* C4: a token issued on full login success carries the group set the
\* directory holds for the principal at issuance (admin: {Admin})
C4_LoginTokenCarriesGroups ==
  (last.op \in LoginOps /\ last.kind = "token") =>
     ClaimedGroups(last.token) = dirGroups[last.username]

\* C5: when the directory accepts the password and asks for a second factor,
\* login responds with a challenge carrying the challenge kind and the
\* directory's session, not with a token and not with an error
C5_ChallengeReturned ==
  (/\ last.op \in {"loginFull", "loginCloud"}
   /\ last.dirKind = "Challenge"
   /\ last.dirName = "SOFTWARE_TOKEN_MFA") =>
     /\ last.kind = "challenge"
     /\ last.challenge = last.dirName
     /\ last.rsession = last.dirSession

\* C6: a challenge response whose code the directory does not accept is
\* answered 401 with an error and no token
C6_WrongCodeFails ==
  (last.op = "mfaChallenge" /\ last.dirName = "CodeMismatchException") =>
     /\ last.status = 401
     /\ last.kind = "error"
     /\ ~Falsy(last.error)
     /\ last.token = NullToken

\* the directory has refused the code of a challenge response
C6_Witness == last.op = "mfaChallenge" /\ last.dirName = "CodeMismatchException"

\* C7: a challenge response that repeats the username, session and code of a
\* call the directory has already accepted is answered 401 with an error and
\* no token
C7_NoReplay ==
  (last.op = "mfaChallenge" /\ last.replay) =>
     /\ last.status = 401
     /\ last.kind = "error"
     /\ last.token = NullToken

\* an accepted challenge response has been sent again
C7_Witness == last.op = "mfaChallenge" /\ last.replay /\ last.dirCalled

\* C8: the token issued after a successful challenge carries the group set
\* the directory holds for the principal, so a member of Admin passes
\* authorizeGroup('Admin') with it
C8_ChallengeTokenCarriesGroups ==
  (last.op = "mfaChallenge" /\ last.kind = "token") =>
     /\ ClaimedGroups(last.token) = dirGroups[last.username]
     /\ "Admin" \in dirGroups[last.username] =>
          LET a == authenticateToken(TRUE, last.token, last.token.iat[1])
          IN a.next /\ authorizeGroup("Admin", a.user).next

\* whether the expiry of token has passed at instant now
ExpiryPassed(token, now) == token.exp # None /\ token.exp[1] < now

\* C9: a token whose expiry has passed when it is verified is rejected: the
\* middleware does not run the handler, and verifyToken reports failure
C9_ExpiredRejected ==
  /\ (last.op = "adminRequest" /\ last.hasHeader /\ ExpiryPassed(last.token, last.at))
       => ~last.next /\ last.user = NullToken
  /\ (last.op = "verifyToken" /\ ExpiryPassed(last.token, last.at))
       => ~last.success

\* C10: verification returns claims only for a well-formed, unexpired token
\* signed with the process key and carrying a subject
C10_ClaimsOnlyIfVerified ==
  LET trusted ==
        /\ last.token.wellFormed
        /\ last.token.sig = JWT_SECRET
        /\ ~ExpiryPassed(last.token, last.at)
        /\ ~Falsy(last.token.username)
  IN /\ (last.op = "adminRequest" /\ last.user # NullToken) => trusted
     /\ (last.op = "verifyToken" /\ last.success) => trusted

\* whether token is a JWT signed with the process key whose expiry, if it has
\* one, lies after now
Verifies(token, now) ==
  /\ token.wellFormed
  /\ token.sig = JWT_SECRET
  /\ token.exp = None \/ now < token.exp[1]

\* C11: the middleware attaches the decoded claims and passes control if and
\* only if a token is present, verifies and contains a username; otherwise it
\* sends one error response (missing token, invalid token or missing
\* subject), attaches nothing and the handler does not run
C11_MiddlewarePassesIffValid ==
  last.op = "adminRequest" =>
     LET present == last.hasHeader
         verifies == Verifies(last.token, last.at)
         subject == ~Falsy(last.token.username)
         passed == last.user # NullToken
     IN /\ passed <=> (present /\ verifies /\ subject)
        /\ passed => last.user = last.token
        /\ ~passed =>
             /\ ~last.next
             /\ last.kind = "error"
             /\ <<last.status, last.error>> =
                  IF ~present THEN <<401, "Access token required">>
                  ELSE IF ~verifies THEN <<403, "Invalid token">>
                  ELSE <<401, "Username missing in token">>

\* the middleware has passed a request on with the claims of its token
C11_Witness ==
  /\ last.op = "adminRequest"
  /\ last.hasHeader
  /\ last.user # NullToken
  /\ last.user.username = "admin"

\* the groups the membership source of the deployment holds for username
\* when a guard runs: the in-process table for the local app's guard, the
\* directory for the cloud app's guard
CurrentGroups(op, username) ==
  IF op = "guardedRequest"
    THEN {getUserGroups(userGroupMembership, username)[i] :
            i \in 1..Len(getUserGroups(userGroupMembership, username))}
  ELSE IF username \in Users THEN dirGroups[username]
  ELSE {}

\* C12: a guard for the groups G lets an authenticated request through if
\* and only if the caller's current groups contain a member of G; a caller
\* with no groups is denied
C12_GuardAllowsIffMember ==
  (last.op \in {"guardedRequest", "adminRequest"} /\ last.user # NullToken) =>
     LET current == CurrentGroups(last.op, last.user.username)
         required == {last.required[i] : i \in 1..Len(last.required)}
     IN /\ last.next <=> (current \cap required # {})
        /\ current = {} => ~last.next

\* C13: when a guard denies an authenticated request for lack of a group,
\* the response carries the caller's own current groups, and so no other
\* principal's
C13_DenialCarriesOwnGroups ==
  (/\ last.op \in {"guardedRequest", "adminRequest"}
   /\ last.user # NullToken
   /\ ~last.next) =>
     /\ last.status = 403
     /\ last.userGroups # None
     /\ {last.userGroups[1][i] : i \in 1..Len(last.userGroups[1])}
          = CurrentGroups(last.op, last.user.username)

\* number of entries of list that are x
Entries(list, x) == Cardinality({i \in 1..Len(list) : list[i] = x})

\* C14: after addUserToGroup(p, g) the list of p has exactly one entry g, and
\* the list is the one before when p already held g; removeUserFromGroup(p,
\* g) succeeds and leaves the list as before when p did not hold g.  The
\* same holds of the directory-backed operations on the directory's
\* membership, for a principal and a group the directory knows and while it
\* is available
C14_MembershipIdempotent ==
  LET p == last.username
      g == last.group
      before == last.userGroups[1]
      known == p \in Users /\ g \in Groups /\ last.dirName # "InternalErrorException"
  IN /\ last.op = "storeAdd" =>
          /\ last.success
          /\ Entries(userGroupMembership[p], g) = 1
          /\ Includes(before, g) => userGroupMembership[p] = before
     /\ last.op = "storeRemove" =>
          /\ last.success
          /\ Entries(userGroupMembership[p], g) = 0
          /\ ~Includes(before, g) => userGroupMembership[p] = before
     /\ (last.op = "dirAdd" /\ known) =>
          /\ last.success
          /\ g \in dirGroups[p]
          /\ Includes(before, g) => SetAsList(dirGroups[p]) = before
     /\ (last.op = "dirRemove" /\ known) =>
          /\ last.success
          /\ g \notin dirGroups[p]
          /\ ~Includes(before, g) => SetAsList(dirGroups[p]) = before

\* C15: a login refused because the username is unknown gets the status and
\* the message that the same handler gives a login refused because the
\* password is wrong
C15_RejectionsIndistinguishable ==
  LET wrongPassword ==
        [kind |-> "Throw", name |-> "NotAuthorizedException", session |-> -1]
      same(r) == r.status = last.status /\ r.error = last.error
  IN /\ (last.op = "loginFull" /\ last.dirName = "UserNotFoundException") =>
          same(LoginFullResponse(authenticateUser(wrongPassword, last.username),
                                 last.username, clock))
     /\ (last.op = "loginCloud" /\ last.dirName = "UserNotFoundException") =>
          same(LoginCloudResponse(authenticateUser(wrongPassword, last.username),
                                  clock))
     /\ (last.op = "loginLocal" /\ last.dirKind = "NoUser") =>
          same(LoginLocalResponse("BadPassword", last.username, clock))

\* the exceptions with which the directory refuses a login (password,
\* username, unconfirmed account) or a challenge response (session, code)
Rejections(op) ==
  IF op = "mfaChallenge"
    THEN {"NotAuthorizedException", "CodeMismatchException"}
  ELSE {"NotAuthorizedException", "UserNotFoundException",
        "UserNotConfirmedException"}

C17_EnrollmentAllocatesIffNotEnabled ==
  (last.op \in {"mfaStatus", "enableMfa"} /\ last.next) =>
     LET u == last.user.username
     IN /\ (last.mfaBefore /\ last.dirName # "InternalErrorException") =>
             /\ last.enabled = Some(TRUE)
             /\ last.secret = 0
             /\ "AdminAssociateSoftwareTokenCommand" \notin
                  {last.commands[i] : i \in 1..Len(last.commands)}
        /\ (/\ ~last.mfaBefore
            /\ last.dirName # "InternalErrorException"
            /\ last.error # "InternalErrorException") =>
             /\ last.secret # 0
             /\ dirMfa[u].secret = last.secret
             /\ last.qrCode = Some(generateQRCode(u, last.secret))
             /\ ~dirMfa[u].enabled

\* C18: verify-mfa turns a principal's MFA from not enabled to enabled only
\* when the directory has accepted the supplied code; when the directory
\* answers with a code mismatch, the result is the failure 'Invalid MFA
\* code', no enabling command is sent and the principal's MFA is as it was
C18_EnabledOnlyByValidCode ==
  (last.op = "verifyMfa" /\ last.next) =>
     LET u == last.user.username
     IN /\ (dirMfa[u].enabled /\ ~last.mfaBefore) =>
             /\ last.secret # 0
             /\ last.dirKind = "Ok"
             /\ last.commands = <<"VerifySoftwareTokenCommand",
                                  "AdminSetUserMFAPreferenceCommand">>
             /\ last.success
        /\ last.dirName = "CodeMismatchException" =>
             /\ ~last.success
             /\ last.error = "Invalid MFA code"
             /\ last.commands = <<"VerifySoftwareTokenCommand">>
             /\ dirMfa[u].enabled = last.mfaBefore

\* a principal whose MFA is not enabled has sent a secret with a code the
\* directory refused
C18_Witness ==
  /\ last.op = "verifyMfa"
  /\ last.next
  /\ last.secret # 0
  /\ last.dirName = "CodeMismatchException"
  /\ ~last.mfaBefore
  /\ ~dirMfa[last.user.username].enabled

Issued(token) ==
  /\ token.wellFormed
  /\ token.sig = JWT_SECRET
  /\ token.iat # None
  /\ token.exp = Some(token.iat[1] + TokenTTL)

\* C20: a token issued at t is accepted by the middleware and by verifyToken
\* at every instant up to and including t + TokenTTL and rejected at every
\* later instant
C20_AcceptedThroughExpiry ==
  LET inTime == last.at <= last.token.exp[1]
  IN /\ (last.op = "adminRequest" /\ last.hasHeader /\ Issued(last.token)) =>
          ((last.user # NullToken) <=> inTime)
     /\ (last.op = "verifyToken" /\ Issued(last.token)) =>
          (last.success <=> inTime)

\* C21: a challenge response in which the username, the session or the code
\* is missing, or whose code is not six digits, is refused with an error and
\* no token before the directory is called
C21_ChallengeInputsValidated ==
  (/\ last.op = "mfaChallenge"
   /\ \/ Falsy(last.username)
      \/ last.session = -1
      \/ last.codeFormat # "six digits") =>
     /\ ~last.dirCalled
     /\ last.kind = "error"
     /\ last.status = 400
     /\ last.token = NullToken

\* C22: the groups a guard uses for an authenticated caller are the groups
\* the listing of the same deployment reports for that caller: the guard of
\* the cloud app allows the caller for g exactly when listGroupsForUser
\* succeeds and lists g, which is when the directory holds the caller in g;
\* and a listing of a principal the directory knows, while it is available,
\* succeeds with the groups the directory holds
C22_GuardAndListingAgree ==
  /\ (last.op = "adminRequest" /\ last.user # NullToken
        /\ last.user.username \in Users) =>
       LET u == last.user.username
           listing == listGroupsForUser(
                        Send("AdminListGroupsForUserCommand",
                             DirListGroupsForUser(dirGroups, u, FALSE)))
       IN /\ listing.success
          /\ listing.groups = dirGroups[u]
          /\ \A g \in Groups :
               authorizeGroup(g, last.user).next <=> g \in listing.groups
  /\ (last.op = "listGroups" /\ last.username \in Users
        /\ last.dirName # "InternalErrorException") =>
       /\ last.success
       /\ last.groups = dirGroups[last.username]

\* the orders in which the callers' calls can be applied one after another
CallOrders ==
  {order \in [Callers -> Callers] :
     \A i, j \in Callers : order[i] = order[j] => i = j}

\* the table after the first n calls of order have been applied to
\* membership one after another, each as a whole
RECURSIVE AppliedInOrder(_, _, _)
AppliedInOrder(membership, order, n) ==
  IF n = 0 THEN membership
  ELSE LET before == AppliedInOrder(membership, order, n - 1)
           c == calls[order[n]]
       IN IF c.op = "addUserToGroup"
            THEN addUserToGroup(before, c.username, c.groupName)
          ELSE removeUserFromGroup(before, c.username, c.groupName)

\* C23: when calls of addUserToGroup and removeUserFromGroup made at the same
\* time have all returned, the table is the one that applying the calls one
\* after another in some order gives: no call's update is lost
C23_StoreWritesSerialized ==
  (calls # <<>> /\ \A i \in Callers : calls[i].pc = "returned") =>
     \E order \in CallOrders :
       userGroupMembership =
         AppliedInOrder(DefaultMembership, order, MaxCallers)

\* an addition and a removal for the same principal, made at the same time,
\* have both returned
C23_Witness ==
  /\ calls # <<>>
  /\ \A i \in Callers : calls[i].pc = "returned"
  /\ \E i, j \in Callers :
       /\ calls[i].op = "addUserToGroup"
       /\ calls[j].op = "removeUserFromGroup"
       /\ calls[i].username = calls[j].username
       /\ calls[i].groupName # calls[j].groupName
       /\ calls[j].groupName \in
            {DefaultMembership[calls[j].username][k] :
               k \in 1..Len(DefaultMembership[calls[j].username])}

C27_SuccessOnlyWithAuthResult ==
  /\ last.op = "initiateAuthWithMFA" =>
       /\ last.message = "Authentication successful" =>
            last.authResult /\ last.dirKind = "AuthenticationResult"
       /\ last.dirKind = "Challenge" =>
            /\ last.kind = "challenge"
            /\ last.challenge = last.dirName
            /\ last.rsession = last.dirSession
  /\ (last.op = "mfaServiceRespond" /\ last.success) =>
       last.authResult /\ last.dirKind = "AuthenticationResult"

\* C28: after a register request that registered a new principal (the
\* route answered with success, or the directory created the account), the
\* principal is a member of the group User the route asked for; and a
\* login of a registered principal with its password gets a token that
\* passes the check for User
C28_RegisteredIsUser ==
  /\ (last.op = "register" /\ (last.status = 200 \/ last.dirKind = "Ok")) =>
       /\ last.username \in DOMAIN dirAccounts
       /\ last.group \in dirAccounts[last.username].groups
  /\ (/\ last.op = "loginRegistered"
      /\ last.dirKind \in {"AuthenticationResult", "Challenge"}) =>
       /\ last.kind = "token"
       /\ authorizeGroup("User", last.token).next

\* C29: for every job started, the record update is called at most once
\* and the job is put into completedJobs at most once, and a job in
\* completedJobs has had both done exactly once
C29_CompletionOnce ==
  \A j \in DOMAIN jobs :
    /\ jobs[j].recordUpdates <= 1
    /\ jobs[j].stored <= 1
    /\ (j \in DOMAIN completedJobs /\ jobs[j].pending = 0) =>
         jobs[j].recordUpdates = 1 /\ jobs[j].stored = 1

\* C30: a job-status or completed-jobs response carries only jobs whose
\* userId is that of the authenticated caller
C30_JobsOnlyToOwner ==
  (last.op \in {"jobStatusFull", "jobStatusCloud", "completedJobs"}) =>
     \A j \in last.returned : completedJobs[j].userId = last.user.userId

====
